---- MODULE Spec2Model ----
(***************************************************************************)
(* Model of the browser client of the Ascend student portal: the profile   *)
(* wizard (frontend/static/js/profile_new.js) with its sub-collection      *)
(* editors, draft sanitization, submit and resume view, and the session    *)
(* store it reads (frontend/static/js/utils.js).                           *)
(*                                                                         *)
(* JavaScript values are tagged records [t |-> <typeof-like tag>, ...].    *)
(* A string is a sequence of one-character strings, so that trim, split    *)
(* and parseInt are computed character by character as the code does.      *)
(* An object is a function from its keys to values; a key that is absent   *)
(* maps to Undef (JSON and the readers of the draft treat both alike).     *)
(***************************************************************************)
EXTENDS Integers, Sequences, FiniteSets, TLC

VARIABLES
    currentStep,      \* profile_new.js:5   let currentStep
    profileData,      \* profile_new.js:7   let profileData (the draft)
    isEditMode,       \* profile_new.js:36  let isEditMode
    editing,          \* profile_new.js:39-43 editingEducation .. editingCertification
    modalHidden,      \* 'hidden' class of educationModal .. certificationModal
    form,             \* values of the wizard form's inputs (DOM)
    wizardHidden,     \* 'hidden' class of #wizardView
    resumeHidden,     \* 'hidden' class of #resumeView
    storage,          \* localStorage: access_token, user
    location,         \* window.location.href: "page" or the route navigated to
    loadPc,           \* position of loadProfile: "start", "fetch", "done"
    inflight,         \* submit requests awaiting their response
    timers,           \* pending setTimeout(showResumeView) callbacks
    lastSaved,        \* the submit request whose response.ok set the pending
                      \* callback last, or Null when none is pending
    lastNotice,       \* type of the last showNotification(message, type)
    loadedRaw,        \* the profile_data loadProfile received, or Undef
    sanitizeLog,      \* the input of sanitizeProfileData and the draft after
                      \* each application (SpecSanitize)
    apiPending,       \* utils.js: requests apiCall has sent and not seen answered
    apiReturned,      \* utils.js: what the apiCall that settled last returned
    currentPage,      \* jobs.js:3   let currentPage
    jobFilters,       \* jobs.js: values of jobTypeFilter, sourceFilter, locationFilter
    jobsLog,          \* jobs.js: the list requests loadJobs has sent, in order
    jobsPending,      \* jobs.js: indices of jobsLog not yet answered
    pagination,       \* jobs.js: what updatePagination last displayed, or Null
    currentChart,     \* analytics_dashboard.js:7  let currentChart (0 is null)
    liveCharts,       \* Chart instances constructed and not destroyed
    chartsMade,       \* number of Chart instances constructed so far
    chartSectionHidden, \* 'hidden' class of #chartSection
    tableRows,        \* rows renderTable last rendered, or Undef
    currentRawData,   \* analytics_dashboard.js:8  let currentRawData
    queriesPending,   \* queries handleQuerySubmit sent and not seen answered,
                      \* in the order sent
    queryIntent,      \* text of #queryIntent: the query the result shown answers
    resultsHidden,    \* 'hidden' class of #resultsSection
    csvOut,           \* text of the file exportToCSV last produced, or Undef
    clicks,           \* notifications.js: running handleNotificationClick calls
    notifLog,         \* notifications.js: the requests sent, in order
    unreadCount,      \* notifications.js:4  let unreadCount
    countPending,     \* loadUnreadCount calls awaiting their response
    loginRole,        \* localStorage: login_role, or Null
    oauth,            \* position of loginWithGoogle / handleOAuthCallback
    lastAlert         \* message of the last alert(), or Undef

vars == <<currentStep, profileData, isEditMode, editing, modalHidden, form,
          wizardHidden, resumeHidden, storage, location, loadPc,
          inflight, timers, lastSaved, lastNotice, loadedRaw, sanitizeLog,
          apiPending, apiReturned, currentPage, jobFilters, jobsLog, jobsPending,
          pagination, currentChart, liveCharts, chartsMade, chartSectionHidden,
          tableRows, currentRawData, queriesPending, queryIntent,
          resultsHidden, csvOut, clicks, notifLog, unreadCount, countPending,
          loginRole, oauth, lastAlert>>

apiVars == <<apiPending, apiReturned>>
jobsVars == <<currentPage, jobFilters, jobsLog, jobsPending, pagination>>
dashVars == <<currentChart, liveCharts, chartsMade, chartSectionHidden, tableRows,
              currentRawData, queriesPending, queryIntent, resultsHidden, csvOut>>

\* what the profile page's handlers never touch
notifVars == <<clicks, notifLog, unreadCount, countPending>>
oauthVars == <<loginRole, oauth, lastAlert>>
asideVars == <<sanitizeLog, apiVars, jobsVars, dashVars, notifVars, oauthVars>>

-----------------------------------------------------------------------------
(* JavaScript values *)

Null  == [t |-> "null"]
Undef == [t |-> "undefined"]
Hole  == [t |-> "hole"]          \* an empty slot of a sparse array
NaN   == [t |-> "NaN"]
Str(s)  == [t |-> "string", v |-> s]
Num(n)  == [t |-> "number", v |-> n]
Bool(b) == [t |-> "boolean", v |-> b]
Arr(s)  == [t |-> "array", v |-> s]
Obj(f)  == [t |-> "object", v |-> f]

IsArray(x) == x.t = "array"

\* typeof x === 'object' (true of null, arrays and objects)
TypeofObject(x) == x.t \in {"object", "array", "null"}

\* JavaScript truthiness
Truthy(x) ==
    CASE x.t \in {"null", "undefined", "NaN", "hole"} -> FALSE
      [] x.t = "string"  -> x.v # <<>>
      [] x.t = "number"  -> x.v # 0
      [] x.t = "boolean" -> x.v
      [] OTHER -> TRUE

-----------------------------------------------------------------------------
(* Strings: sequences of characters *)

IsSpace(c) == c \in {" ", "\t", "\n"}

RECURSIVE TrimLeft(_)
TrimLeft(s) ==
    IF s = <<>> THEN s
    ELSE IF IsSpace(Head(s)) THEN TrimLeft(Tail(s)) ELSE s

RECURSIVE TrimRight(_)
TrimRight(s) ==
    IF s = <<>> THEN s
    ELSE IF IsSpace(s[Len(s)]) THEN TrimRight(SubSeq(s, 1, Len(s) - 1)) ELSE s

\* String.prototype.trim
Trim(s) == TrimRight(TrimLeft(s))

\* String.prototype.split(','): "" splits into one empty string
RECURSIVE SplitComma(_, _)
SplitComma(s, cur) ==
    IF s = <<>> THEN <<cur>>
    ELSE IF Head(s) = "," THEN <<cur>> \o SplitComma(Tail(s), <<>>)
    ELSE SplitComma(Tail(s), Append(cur, Head(s)))

RECURSIVE FilterNonEmpty(_)
FilterNonEmpty(ss) ==
    IF ss = <<>> THEN <<>>
    ELSE IF Head(ss) = <<>> THEN FilterNonEmpty(Tail(ss))
    ELSE <<Head(ss)>> \o FilterNonEmpty(Tail(ss))

\* s.split(',').map(s => s.trim()).filter(s => s), as a sequence of strings
SplitTags(s) ==
    LET parts == SplitComma(s, <<>>)
    IN  FilterNonEmpty([i \in 1..Len(parts) |-> Trim(parts[i])])

\* the same, as a JavaScript array of strings
TagArray(s) ==
    LET tags == SplitTags(s) IN Arr([i \in 1..Len(tags) |-> Str(tags[i])])

-----------------------------------------------------------------------------
(* The draft *)

Colls == {"education", "skills", "experience", "projects", "certifications"}

PrefKeys == {"employment_type", "work_mode", "preferred_roles",
             "preferred_industries", "expected_salary", "willing_to_relocate",
             "notice_period", "availability_date", "preferred_locations"}

LinkKeys == {"linkedin", "github", "portfolio", "resume_link", "twitter",
             "leetcode"}

ProjKeys == {"title", "description", "tech_stack", "link", "github_link",
             "start_date", "end_date"}

\* the preferences object sanitizeProfileData installs
DefaultPreferences ==
    Obj([k \in PrefKeys |->
            IF k \in {"employment_type", "work_mode"} THEN Arr(<<>>) ELSE Null])

\* the links object sanitizeProfileData installs
DefaultLinks == Obj([k \in LinkKeys |-> Null])

\* if (!x) x = []: only a missing or null value is replaced
EnsureArrayFalsyOnly(x) == IF Truthy(x) THEN x ELSE Arr(<<>>)

\* if (!Array.isArray(x)) x = []
EnsureArray(x) == IF IsArray(x) THEN x ELSE Arr(<<>>)

SanitizePreferences(p) ==
    IF ~Truthy(p) \/ ~TypeofObject(p) THEN DefaultPreferences
    ELSE Obj([k \in PrefKeys |->
                IF k \in {"employment_type", "work_mode"}
                THEN EnsureArray(p.v[k]) ELSE p.v[k]])

\* sanitizeProfileData without its links block
SanitizeLinksKeep(l) == l

SanitizeLinks(l) ==
    IF ~Truthy(l) \/ ~TypeofObject(l) THEN DefaultLinks ELSE l

\* the body of the projects.map callback, on a project object
FixTechStackReset(proj) ==
    Obj([proj.v EXCEPT !.tech_stack =
            IF @.t = "string" THEN TagArray(@.v) ELSE Arr(<<>>)])

FixTechStack(proj) ==
    Obj([proj.v EXCEPT !.tech_stack =
            IF @.t = "string" THEN TagArray(@.v)
            ELSE IF ~IsArray(@) THEN Arr(<<>>) ELSE @])

\* index of the first element on which the callback throws (proj.tech_stack of
\* null is a TypeError), or 0; map() skips holes
FirstNull(ps) ==
    LET bad == {i \in 1..Len(ps) : ps[i].t \in {"null", "undefined"}}
    IN  IF bad = {} THEN 0 ELSE CHOOSE i \in bad : \A j \in bad : i <= j

\* the projects.map of sanitizeProfileData: the objects are changed in place,
\* up to the element that throws
SanitizeProjects(ps) ==
    LET k == FirstNull(ps)
    IN  [i \in 1..Len(ps) |->
            IF ps[i].t = "object" /\ (k = 0 \/ i < k) THEN FixTechStack(ps[i])
            ELSE ps[i]]

\* sanitizeProfileData: the draft it leaves, and whether it threw
SanitizeProfileData(d) ==
    LET d1 == [k \in DOMAIN d |->
                 IF k \in Colls THEN EnsureArray(d[k])
                 ELSE IF k = "preferences" THEN SanitizePreferences(d[k])
                 ELSE IF k = "links" THEN SanitizeLinks(d[k])
                 ELSE d[k]]
    IN  [d |-> [d1 EXCEPT !.projects = Arr(SanitizeProjects(@.v))],
         threw |-> FirstNull(d1.projects.v) # 0]

-----------------------------------------------------------------------------
(* Numbers read from inputs *)

Digits == {"0", "1", "2", "3", "4", "5", "6", "7", "8", "9"}

DigitVal(c) ==
    CASE c = "0" -> 0 [] c = "1" -> 1 [] c = "2" -> 2 [] c = "3" -> 3
      [] c = "4" -> 4 [] c = "5" -> 5 [] c = "6" -> 6 [] c = "7" -> 7
      [] c = "8" -> 8 [] c = "9" -> 9

RECURSIVE LeadingDigits(_)
LeadingDigits(s) ==
    IF s = <<>> \/ Head(s) \notin Digits THEN <<>>
    ELSE <<Head(s)>> \o LeadingDigits(Tail(s))

RECURSIVE DigitsValue(_)
DigitsValue(ds) ==
    IF ds = <<>> THEN 0
    ELSE 10 * DigitsValue(SubSeq(ds, 1, Len(ds) - 1)) + DigitVal(ds[Len(ds)])

RECURSIVE StripZeros(_)
StripZeros(ds) ==
    IF ds # <<>> /\ ds[Len(ds)] = "0" THEN StripZeros(SubSeq(ds, 1, Len(ds) - 1))
    ELSE ds

\* parseInt(s) of an unsigned decimal numeral: leading white space is skipped,
\* the digits up to the first other character are read, NaN if there are none
ParseInt(s) ==
    LET ds == LeadingDigits(TrimLeft(s))
    IN  IF ds = <<>> THEN NaN ELSE Num(DigitsValue(ds))

\* parseFloat(s) of an unsigned decimal numeral with an optional fraction
ParseFloat(s) ==
    LET t    == TrimLeft(s)
        ds   == LeadingDigits(t)
        rest == SubSeq(t, Len(ds) + 1, Len(t))
        fr   == IF rest # <<>> /\ Head(rest) = "."
                THEN StripZeros(LeadingDigits(Tail(rest))) ELSE <<>>
    IN  IF ds = <<>> THEN NaN
        ELSE IF fr = <<>> THEN Num(DigitsValue(ds))
        ELSE [t |-> "number", v |-> DigitsValue(ds), frac |-> fr]

\* (value && value.trim()) ? value.trim() : null
TrimOrNull(s) == IF Trim(s) # <<>> THEN Str(Trim(s)) ELSE Null

-----------------------------------------------------------------------------
(* Records built by the sub-collection editors from their form's inputs *)

\* saveEducationEntry: const education = {...}
BuildEducation(f) ==
    Obj([level            |-> Str(f.edu_level),
         board_university |-> Str(f.edu_board_university),
         school_college   |-> Str(f.edu_school_college),
         year             |-> ParseInt(f.edu_year),
         percentage_cgpa  |-> ParseFloat(f.edu_percentage_cgpa),
         degree           |-> TrimOrNull(f.edu_degree),
         branch           |-> TrimOrNull(f.edu_branch)])

\* saveSkillEntry: const skill = {...}
BuildSkill(f) ==
    Obj([name        |-> Str(Trim(f.skill_name)),
         proficiency |-> Str(f.skill_proficiency),
         category    |-> TrimOrNull(f.skill_category)])

\* saveExperienceEntry: const experience = {...}
BuildExperience(f) ==
    Obj([company     |-> Str(Trim(f.exp_company)),
         role        |-> Str(Trim(f.exp_role)),
         start_date  |-> Str(Trim(f.exp_start_date)),
         end_date    |-> TrimOrNull(f.exp_end_date),
         is_current  |-> Bool(f.exp_is_current),
         description |-> Str(Trim(f.exp_description)),
         location    |-> TrimOrNull(f.exp_location)])

\* saveProjectEntry: const project = {...}
BuildProject(f) ==
    Obj([title       |-> Str(Trim(f.proj_title)),
         description |-> Str(Trim(f.proj_description)),
         tech_stack  |-> TagArray(f.proj_tech_stack),
         link        |-> TrimOrNull(f.proj_link),
         github_link |-> TrimOrNull(f.proj_github_link),
         start_date  |-> TrimOrNull(f.proj_start_date),
         end_date    |-> TrimOrNull(f.proj_end_date)])

\* saveCertificationEntry: const certification = {...}
BuildCertification(f) ==
    Obj([name           |-> Str(Trim(f.cert_name)),
         issuer         |-> Str(Trim(f.cert_issuer)),
         issue_date     |-> Str(Trim(f.cert_issue_date)),
         expiry_date    |-> TrimOrNull(f.cert_expiry_date),
         credential_id  |-> TrimOrNull(f.cert_credential_id),
         credential_url |-> TrimOrNull(f.cert_credential_url)])

BuildEntry(c, f) ==
    CASE c = "education"      -> BuildEducation(f)
      [] c = "skills"         -> BuildSkill(f)
      [] c = "experience"     -> BuildExperience(f)
      [] c = "projects"       -> BuildProject(f)
      [] c = "certifications" -> BuildCertification(f)

\* a guard on the raw input instead of on the tags split from it
EntryRejectedEmptyInput(c, f) == c = "projects" /\ f.proj_tech_stack = <<>>

\* saveProjectEntry's guard: if (tech_stack.length === 0) { warning; return }
\* the other four editors accept every input
EntryRejected(c, f) == c = "projects" /\ SplitTags(f.proj_tech_stack) = <<>>

-----------------------------------------------------------------------------
(* What a user types into an editor's form: two fillings per editor, and for
   the project editor a third whose tech stack holds no tag *)

EducationFills ==
    { [edu_level |-> <<"U", "G">>, edu_board_university |-> <<"b">>,
       edu_school_college |-> <<"c">>, edu_year |-> <<"2", "4">>,
       edu_percentage_cgpa |-> <<"8", ".", "5">>,
       edu_degree |-> <<" ", "d", " ">>, edu_branch |-> <<>>],
      [edu_level |-> <<"1", "2">>, edu_board_university |-> <<"b">>,
       edu_school_college |-> <<"s">>, edu_year |-> <<>>,
       edu_percentage_cgpa |-> <<"9", "0">>,
       edu_degree |-> <<" ">>, edu_branch |-> <<"m">>] }

SkillFills ==
    { [skill_name |-> <<" ", "j", "s">>, skill_proficiency |-> <<"h">>,
       skill_category |-> <<>>],
      [skill_name |-> <<"p", "y">>, skill_proficiency |-> <<"l">>,
       skill_category |-> <<"w", " ">>] }

ExperienceFills ==
    { [exp_company |-> <<"c">>, exp_role |-> <<" ", "r">>,
       exp_start_date |-> <<"2", "3">>, exp_end_date |-> <<>>,
       exp_is_current |-> TRUE, exp_description |-> <<"d">>,
       exp_location |-> <<" ">>],
      [exp_company |-> <<"k">>, exp_role |-> <<"r">>,
       exp_start_date |-> <<"2", "1">>, exp_end_date |-> <<"2", "2">>,
       exp_is_current |-> FALSE, exp_description |-> <<>>,
       exp_location |-> <<"h">>] }

ProjectFills ==
    { [proj_title |-> <<"t">>, proj_description |-> <<"d", " ">>,
       proj_tech_stack |-> <<"x", ",", " ", "y", ",">>, proj_link |-> <<>>,
       proj_github_link |-> <<"g">>, proj_start_date |-> <<>>,
       proj_end_date |-> <<>>],
      [proj_title |-> <<"u">>, proj_description |-> <<"e">>,
       proj_tech_stack |-> <<"z">>, proj_link |-> <<"l">>,
       proj_github_link |-> <<" ">>, proj_start_date |-> <<"2", "3">>,
       proj_end_date |-> <<>>],
      [proj_title |-> <<"v">>, proj_description |-> <<"e">>,
       proj_tech_stack |-> <<" ", ",", " ", ",">>, proj_link |-> <<>>,
       proj_github_link |-> <<>>, proj_start_date |-> <<>>,
       proj_end_date |-> <<>>] }

CertificationFills ==
    { [cert_name |-> <<"n">>, cert_issuer |-> <<"i", " ">>,
       cert_issue_date |-> <<"2", "2">>, cert_expiry_date |-> <<>>,
       cert_credential_id |-> <<"7">>, cert_credential_url |-> <<>>],
      [cert_name |-> <<"m">>, cert_issuer |-> <<"j">>,
       cert_issue_date |-> <<"2", "3">>, cert_expiry_date |-> <<"2", "5">>,
       cert_credential_id |-> <<" ">>, cert_credential_url |-> <<"u">>] }

Fills(c) ==
    CASE c = "education"      -> EducationFills
      [] c = "skills"         -> SkillFills
      [] c = "experience"     -> ExperienceFills
      [] c = "projects"       -> ProjectFills
      [] c = "certifications" -> CertificationFills

-----------------------------------------------------------------------------
(* The initial draft and the wizard form *)

StudentRole == <<"S", "t", "u", "d", "e", "n", "t">>

EmptyObject(keys) == Obj([k \in keys |-> Undef])

\* let profileData = {...}
InitialDraft ==
    [full_name |-> Str(<<>>), phone |-> Str(<<>>), location |-> Str(<<>>),
     gender |-> Str(<<>>), date_of_birth |-> Null,
     education |-> Arr(<<>>), skills |-> Arr(<<>>), experience |-> Arr(<<>>),
     projects |-> Arr(<<>>), certifications |-> Arr(<<>>),
     preferences |-> EmptyObject(PrefKeys), links |-> EmptyObject(LinkKeys),
     summary |-> Str(<<>>), domain_expertise |-> Str(<<>>),
     languages |-> Str(<<>>), achievements |-> Str(<<>>),
     total_experience_years |-> Num(0), current_role |-> Str(StudentRole),
     current_company |-> Str(<<>>)]

DraftKeys == DOMAIN InitialDraft

-----------------------------------------------------------------------------
(* Draft shapes a stored profile can have when it is loaded *)

EduA == BuildEducation(CHOOSE f \in EducationFills : f.edu_branch = <<>>)
SkillA == BuildSkill(CHOOSE f \in SkillFills : f.skill_category = <<>>)
ExpA == BuildExperience(CHOOSE f \in ExperienceFills : f.exp_is_current)
ProjA == BuildProject(CHOOSE f \in ProjectFills : f.proj_title = <<"t">>)
CertA == BuildCertification(CHOOSE f \in CertificationFills : f.cert_name = <<"n">>)

SampleEntry(c) ==
    CASE c = "education"      -> EduA
      [] c = "skills"         -> SkillA
      [] c = "experience"     -> ExpA
      [] c = "projects"       -> ProjA
      [] c = "certifications" -> CertA

\* a sequence, a single object, a string, null, missing
CollShapes(c) ==
    {Arr(<<>>), Arr(<<SampleEntry(c)>>), SampleEntry(c), Str(<<"x">>), Null, Undef}

ProjWith(ts) == Obj([ProjA.v EXCEPT !.tech_stack = ts])

\* projects whose tech_stack is a delimited string (the legacy shape), an array,
\* or anything else; a sequence with a null element (a hole of a sparse array
\* comes back from JSON as null)
ProjectShapes ==
    {Arr(<<>>), Null, Undef, ProjA, Str(<<"x">>),
     Arr(<<ProjA>>),
     Arr(<<ProjWith(Str(<<" ", "x", ",", ",", "y", " ">>))>>),
     Arr(<<ProjWith(Str(<<>>))>>),
     Arr(<<ProjWith(Null)>>), Arr(<<ProjWith(Undef)>>), Arr(<<ProjWith(Num(3))>>),
     Arr(<<ProjWith(Str(<<"x">>)), Null, ProjWith(Str(<<"y">>))>>),
     Arr(<<Hole, ProjWith(Str(<<"x">>))>>)}

FtValue == Str(<<"f", "t">>)
InValue == Str(<<"i", "n">>)
RemoteValue == Str(<<"r">>)

PrefShapes ==
    {Null, Undef, Str(<<"x">>), EmptyObject(PrefKeys),
     Obj([k \in PrefKeys |->
            IF k = "employment_type" THEN Arr(<<FtValue>>)
            ELSE IF k = "work_mode" THEN Arr(<<RemoteValue>>)
            ELSE IF k = "preferred_roles" THEN Str(<<"d">>) ELSE Null]),
     Obj([k \in PrefKeys |->
            IF k = "employment_type" THEN FtValue
            ELSE IF k = "expected_salary" THEN Str(<<"9">>) ELSE Undef])}

LinkShapes ==
    {Null, Undef, Str(<<"x">>), EmptyObject(LinkKeys),
     Obj([k \in LinkKeys |-> IF k = "github" THEN Str(<<"g">>) ELSE Null]),
     Obj([k \in LinkKeys |-> IF k = "linkedin" THEN Str(<<"l">>) ELSE Undef])}

SanitizeInputs ==
    { [InitialDraft EXCEPT !.education = e, !.skills = s, !.experience = x,
                           !.certifications = x, !.projects = p,
                           !.preferences = pr, !.links = l] :
        e \in CollShapes("education"),
        s \in {Arr(<<SkillA>>), Str(<<"j", "s">>), Null},
        x \in {Arr(<<>>), Undef}, p \in ProjectShapes,
        pr \in PrefShapes, l \in LinkShapes }

-----------------------------------------------------------------------------
(* The wizard form (DOM inputs of #profileForm) *)

PrefTextKeys == PrefKeys \ {"employment_type", "work_mode"}

DraftTextKeys == {"full_name", "phone", "location", "gender", "date_of_birth",
                  "domain_expertise", "languages", "summary", "achievements",
                  "total_experience_years", "current_role", "current_company"}

FormTextNames == DraftTextKeys \cup PrefTextKeys \cup LinkKeys

\* the checkboxes named employment_type and work_mode, in document order
EmploymentOptions == <<FtValue, InValue>>
WorkModeOptions == <<RemoteValue>>

Range(q) == {q[i] : i \in DOMAIN q}

RECURSIVE SelectIn(_, _)
SelectIn(q, S) ==
    IF q = <<>> THEN <<>>
    ELSE IF Head(q) \in S THEN <<Head(q)>> \o SelectIn(Tail(q), S)
    ELSE SelectIn(Tail(q), S)

FormBlank ==
    [text |-> [n \in FormTextNames |-> <<>>], employment_type |-> {},
     work_mode |-> {}]

\* what a user types into the wizard form: every required input filled (with
\* white space around it), and the same with a phone of white space only
FormFilled ==
    [text |-> [n \in FormTextNames |->
                 CASE n = "full_name" -> <<" ", "A", " ">>
                   [] n = "phone" -> <<"9">>
                   [] n = "location" -> <<"h">>
                   [] n = "total_experience_years" -> <<"2">>
                   [] n = "summary" -> <<"s", " ">>
                   [] n = "github" -> <<"g">>
                   [] n = "expected_salary" -> <<" ">>
                   [] OTHER -> <<>>],
     employment_type |-> {InValue}, work_mode |-> {RemoteValue}]

FormNoPhone == [FormFilled EXCEPT !.text.phone = <<" ">>]

FormPresets == {FormFilled, FormNoPhone}

DigitChar(n) ==
    CASE n = 0 -> "0" [] n = 1 -> "1" [] n = 2 -> "2" [] n = 3 -> "3"
      [] n = 4 -> "4" [] n = 5 -> "5" [] n = 6 -> "6" [] n = 7 -> "7"
      [] n = 8 -> "8" [] n = 9 -> "9"

RECURSIVE NumToStr(_)
NumToStr(n) ==
    IF n < 10 THEN <<DigitChar(n)>>
    ELSE NumToStr(n \div 10) \o <<DigitChar(n % 10)>>

\* setInputValue(name, value || fallback): the string the input then holds
InputString(x, fallback) ==
    IF ~Truthy(x) THEN fallback
    ELSE IF x.t = "string" THEN x.v
    ELSE IF x.t = "number" THEN NumToStr(x.v)
    ELSE fallback

\* populateWizardForm, after its sanitizeProfileData: the inputs it sets
PopulatedForm(d) ==
    [text |-> [n \in FormTextNames |->
                 IF n \in PrefTextKeys THEN InputString(d.preferences.v[n], <<>>)
                 ELSE IF n \in LinkKeys THEN InputString(d.links.v[n], <<>>)
                 ELSE IF n = "total_experience_years" THEN InputString(d[n], <<"0">>)
                 ELSE IF n = "current_role" THEN InputString(d[n], StudentRole)
                 ELSE InputString(d[n], <<>>)],
     employment_type |->
         Range(EmploymentOptions) \cap Range(d.preferences.v.employment_type.v),
     work_mode |->
         Range(WorkModeOptions) \cap Range(d.preferences.v.work_mode.v)]

\* saveProfile's "Collect ..." part: the draft after the form is read into it
CollectForm(d, f) ==
    [d EXCEPT
       !.full_name = Str(Trim(f.text.full_name)),
       !.phone = Str(Trim(f.text.phone)),
       !.location = Str(Trim(f.text.location)),
       !.gender = TrimOrNull(f.text.gender),
       !.date_of_birth = TrimOrNull(f.text.date_of_birth),
       !.domain_expertise = TrimOrNull(f.text.domain_expertise),
       !.languages = TrimOrNull(f.text.languages),
       !.summary = TrimOrNull(f.text.summary),
       !.achievements = TrimOrNull(f.text.achievements),
       !.total_experience_years =
           IF f.text.total_experience_years # <<>>
           THEN ParseInt(f.text.total_experience_years) ELSE Num(0),
       !.current_role =
           IF Trim(f.text.current_role) # <<>>
           THEN Str(Trim(f.text.current_role)) ELSE Str(StudentRole),
       !.current_company = TrimOrNull(f.text.current_company),
       !.preferences =
           Obj([k \in PrefKeys |->
                  CASE k = "employment_type" ->
                         Arr(SelectIn(EmploymentOptions, f.employment_type))
                    [] k = "work_mode" ->
                         Arr(SelectIn(WorkModeOptions, f.work_mode))
                    [] OTHER -> TrimOrNull(f.text[k])]),
       !.links = Obj([k \in LinkKeys |-> TrimOrNull(f.text[k])])]

-----------------------------------------------------------------------------
(* Validation *)

totalSteps == 5

\* the inputs marked required in each step's content: name, phone and location
\* in step 1
RequiredInputs(step) ==
    IF step = 1 THEN {"full_name", "phone", "location"} ELSE {}

RequiredFilled(step, f) ==
    \A n \in RequiredInputs(step) : Trim(f.text[n]) # <<>>

\* validateStep without the step-3 check
ValidateStepNoSkills(step, f, d) ==
    /\ RequiredFilled(step, f)
    /\ ~(step = 2 /\ Len(d.education.v) = 0)

\* validateStep(step): true when the step may be left
ValidateStep(step, f, d) ==
    /\ RequiredFilled(step, f)
    /\ ~(step = 2 /\ Len(d.education.v) = 0)
    /\ ~(step = 3 /\ Len(d.skills.v) = 0)

\* the warning validateStep shows when it fails
ValidationMessage(step, f) ==
    IF ~RequiredFilled(step, f) THEN "Please fill in"
    ELSE IF step = 2 THEN "Please add at least one education entry"
    ELSE "Please add at least one skill"

-----------------------------------------------------------------------------
(* Session store (utils.js) *)

NullText == <<"n", "u", "l", "l">>
UndefinedText == <<"u", "n", "d", "e", "f", "i", "n", "e", "d">>

\* JSON.stringify of a user record, as the stored text; JSON.parse reads it back
JsonText(x) == [t |-> "json", v |-> x]

\* getToken() without its token.trim() === '' test
GetTokenUntrimmed(st) ==
    LET token == st.access_token
    IN  IF token.t # "string" THEN Null
        ELSE IF token.v = <<>> \/ token.v = NullText \/ token.v = UndefinedText
        THEN Null
        ELSE token

\* getToken()
GetToken(st) ==
    LET token == st.access_token
    IN  IF token.t # "string" THEN Null
        ELSE IF token.v = <<>> \/ token.v = NullText \/ token.v = UndefinedText
                \/ Trim(token.v) = <<>> THEN Null
        ELSE token

\* getUser(): null when absent, "null", "undefined" or not JSON
GetUser(st) ==
    LET userStr == st.user
    IN  IF userStr.t = "json" THEN userStr.v ELSE Null

\* setUser(user)
SetUser(st, user) ==
    [st EXCEPT !.user = IF Truthy(user) THEN JsonText(user) ELSE Null]

UserRecord(done) ==
    Obj([email |-> Str(<<"e">>), role |-> Str(<<"s">>),
         profile_completed |-> done])

\* user && user.profile_completed
UserCompleted(user) == Truthy(user) /\ Truthy(user.v.profile_completed)

-----------------------------------------------------------------------------
(* Bounds *)

MaxLen == 2        \* entries a sub-collection may be grown to by appending
MaxRecords == 2    \* entries in the five sub-collections together
MaxOpen == 1       \* editor forms open at once
MaxPending == 1    \* submits whose response or resume timer is outstanding
MaxResubmit == 2   \* the same, where a submit follows a submit (SpecSubmit)
MaxSanitize == 2   \* applications of sanitizeProfileData (SpecSanitize)

-----------------------------------------------------------------------------
(* Arrays *)

\* a.push(x)
Push(a, x) == Arr(Append(a.v, x))

\* a[idx] = x for a 0-based idx >= 0: past the end the array grows, and the
\* slots in between are holes
ArraySet(a, idx, x) ==
    IF idx < Len(a.v) THEN Arr([a.v EXCEPT ![idx + 1] = x])
    ELSE Arr([i \in 1..(idx + 1) |->
                IF i <= Len(a.v) THEN a.v[i]
                ELSE IF i = idx + 1 THEN x ELSE Hole])

\* a.splice(idx, 1) for a 0-based idx >= 0
SpliceFirst(a, idx) == Arr(Tail(a.v))

Splice(a, idx) ==
    IF idx >= Len(a.v) THEN a
    ELSE Arr([i \in 1..(Len(a.v) - 1) |->
                IF i <= idx THEN a.v[i] ELSE a.v[i + 1]])

\* the 0-based indices for which a list render draws edit and delete controls:
\* map() calls back for every element that is not a hole
RenderedIndices(a) == {i \in 0..(Len(a.v) - 1) : a.v[i + 1] # Hole}

RecordCount(d) ==
    LET n(c) == Cardinality(RenderedIndices(d[c]))
    IN  n("education") + n("skills") + n("experience") + n("projects")
          + n("certifications")

\* JSON.stringify of a value: a hole, undefined in an array and NaN become null
RECURSIVE Json(_)
Json(x) ==
    CASE x.t \in {"hole", "NaN"} -> Null
      [] x.t = "array" -> Arr([i \in 1..Len(x.v) |->
                                 IF x.v[i] = Undef THEN Null ELSE Json(x.v[i])])
      [] x.t = "object" -> Obj([k \in DOMAIN x.v |-> Json(x.v[k])])
      [] OTHER -> x

\* the body saveProfile sends: JSON.stringify({ profile_data: profileData })
RequestBody(d) == [k \in DOMAIN d |-> Json(d[k])]

-----------------------------------------------------------------------------
(* The profile page: views, load, navigation *)

editorVars == <<editing, modalHidden>>
viewVars   == <<wizardHidden, resumeHidden>>
netVars    == <<inflight, timers, lastSaved>>
loadVars   == <<loadPc, loadedRaw>>

\* the page is still the document the scripts run in
Alive == location = "page"

\* showNotification(message, type), as the state keeps it
Notice(type, msg) == type

\* showWizardView()
ShowWizardView ==
    /\ wizardHidden' = FALSE
    /\ resumeHidden' = TRUE
    /\ currentStep' = 1

\* showResumeView() on draft d: populateResumeView sanitizes the draft and
\* renders the result
ShowResumeView(d) ==
    /\ wizardHidden' = TRUE
    /\ resumeHidden' = FALSE
    /\ profileData' = SanitizeProfileData(d).d

\* stored drafts: a well-formed one, and one in the shapes older versions
\* stored
LoadedGood ==
    [InitialDraft EXCEPT !.full_name = Str(<<"A">>), !.phone = Str(<<"9">>),
                         !.location = Str(<<"h">>),
                         !.education = Arr(<<EduA>>), !.skills = Arr(<<SkillA>>),
                         !.preferences = DefaultPreferences,
                         !.links = DefaultLinks]

LoadedLegacy ==
    [InitialDraft EXCEPT !.full_name = Str(<<"B">>),
                         !.education = EduA, !.skills = Str(<<"j", "s">>),
                         !.experience = Null, !.certifications = Undef,
                         !.projects = Arr(<<ProjWith(Str(<<"x", ",", "y">>))>>),
                         !.preferences = Null, !.links = Undef,
                         !.total_experience_years = Num(12)]

\* a stored draft whose projects hold a null: what a sparse projects array
\* (a save at a sentinel past the end) becomes in JSON
LoadedNullProject ==
    [LoadedGood EXCEPT !.projects = Arr(<<Null, ProjA>>)]

\* the profile_data a GET returns in this model
LoadedDrafts == {LoadedLegacy, LoadedNullProject}

\* what the GET of loadProfile can settle with: status 0 stands for a rejected
\* fetch or a body that is not JSON, data Undef for no or an empty profile_data
LoadResponses ==
    {[status |-> 200, data |-> d] : d \in LoadedDrafts \cup {Undef}}
      \cup {[status |-> st, data |-> Undef] : st \in {401, 500, 0}}

\* loadProfile, response.ok with a non-empty profile_data
LoadProfileOk(data) ==
    /\ Alive /\ loadPc = "fetch"
    /\ loadPc' = "done" /\ loadedRaw' = data
    /\ IF SanitizeProfileData(data).threw
       THEN /\ profileData' = SanitizeProfileData(data).d
            /\ ShowWizardView
       ELSE /\ ShowResumeView(SanitizeProfileData(data).d)
            /\ UNCHANGED currentStep
    /\ UNCHANGED <<isEditMode, editorVars, form, storage, location, netVars,
                   lastNotice, asideVars>>

\* loadProfile: no or an empty profile_data, a response that is not ok, a
\* rejected fetch or a body that is not JSON
LoadProfileNone ==
    /\ Alive /\ loadPc = "fetch"
    /\ loadPc' = "done"
    /\ ShowWizardView
    /\ UNCHANGED <<profileData, isEditMode, editorVars, form, storage, location,
                   netVars, lastNotice, loadedRaw, asideVars>>

\* loadProfile resumed by the response resp
LoadProfileSettle(resp) ==
    IF resp.status = 200 /\ resp.data # Undef
    THEN LoadProfileOk(resp.data)
    ELSE LoadProfileNone

\* enterEditMode()
EnterEditMode ==
    /\ Alive
    /\ isEditMode' = TRUE
    /\ ShowWizardView
    /\ profileData' = SanitizeProfileData(profileData).d
    /\ IF SanitizeProfileData(profileData).threw
       THEN UNCHANGED <<form, lastNotice>>
       ELSE /\ form' = PopulatedForm(SanitizeProfileData(profileData).d)
            /\ lastNotice' = Notice("info", "Edit your profile and save changes")
    /\ UNCHANGED <<editorVars, storage, location, loadVars, netVars,
                   asideVars>>

\* the user types into the wizard form
TypeForm(p) ==
    /\ Alive
    /\ form' = p
    /\ UNCHANGED <<currentStep, profileData, isEditMode, editorVars, viewVars,
                   storage, location, loadVars, netVars, lastNotice, asideVars>>

\* nextStep() without its currentStep < totalSteps test
NextStepUnbounded(step) == step + 1

\* the step nextStep() moves to from a step that validated
NextStepTarget(step) == IF step < totalSteps THEN step + 1 ELSE step

\* nextStep()
NextStep ==
    /\ Alive
    /\ IF ~ValidateStep(currentStep, form, profileData)
       THEN /\ lastNotice' = Notice("warning", ValidationMessage(currentStep, form))
            /\ UNCHANGED currentStep
       ELSE /\ currentStep' = NextStepTarget(currentStep)
            /\ UNCHANGED lastNotice
    /\ UNCHANGED <<profileData, isEditMode, editorVars, form, viewVars, storage,
                   location, loadVars, netVars, asideVars>>

\* prevStep() going back to the first step
PrevStepToFirst(step) == 1

\* the step prevStep() moves to
PrevStepTarget(step) == IF step > 1 THEN step - 1 ELSE step

\* prevStep()
PrevStep ==
    /\ Alive
    /\ currentStep' = PrevStepTarget(currentStep)
    /\ UNCHANGED <<profileData, isEditMode, editorVars, form, viewVars, storage,
                   location, loadVars, netVars, lastNotice, asideVars>>

-----------------------------------------------------------------------------
(* Sub-collection editors; c ranges over Colls, indices are 0-based as in the
   code and -1 is the "none" sentinel *)

\* openEducationForm() .. openCertificationForm()
OpenCount(hidden) == Cardinality({c \in Colls : ~hidden[c]})

OpenForm(c) ==
    /\ Alive
    /\ OpenCount([modalHidden EXCEPT ![c] = FALSE]) <= MaxOpen
    /\ editing' = [editing EXCEPT ![c] = -1]
    /\ modalHidden' = [modalHidden EXCEPT ![c] = FALSE]
    /\ UNCHANGED <<currentStep, profileData, isEditMode, form, viewVars, storage,
                   location, loadVars, netVars, lastNotice, asideVars>>

\* closeEducationModal() .. closeCertificationModal()
CloseModal(c) ==
    /\ Alive
    /\ ~modalHidden[c]
    /\ modalHidden' = [modalHidden EXCEPT ![c] = TRUE]
    /\ editing' = [editing EXCEPT ![c] = -1]
    /\ UNCHANGED <<currentStep, profileData, isEditMode, form, viewVars, storage,
                   location, loadVars, netVars, lastNotice, asideVars>>

\* editEducation(index) .. editCertification(index), from a rendered control
EditEntry(c, index) ==
    /\ Alive
    /\ index \in RenderedIndices(profileData[c])
    /\ OpenCount([modalHidden EXCEPT ![c] = FALSE]) <= MaxOpen
    /\ editing' = [editing EXCEPT ![c] = index]
    /\ modalHidden' = [modalHidden EXCEPT ![c] = FALSE]
    /\ UNCHANGED <<currentStep, profileData, isEditMode, form, viewVars, storage,
                   location, loadVars, netVars, lastNotice, asideVars>>

\* the sub-collection after an accepted save of entry x
SavedList(a, sentinel, x) ==
    IF sentinel >= 0 THEN ArraySet(a, sentinel, x) ELSE Push(a, x)

SaveNotice(c) ==
    CASE c = "education"      -> "Education entry saved"
      [] c = "skills"         -> "Skill saved"
      [] c = "experience"     -> "Experience saved"
      [] c = "projects"       -> "Project saved"
      [] c = "certifications" -> "Certification saved"

\* saveEducationEntry() .. saveCertificationEntry(), the form holding f
SaveEntry(c, f) ==
    /\ Alive
    /\ IF EntryRejected(c, f)
       THEN /\ lastNotice' =
                  Notice("warning", "Please add at least one technology in Tech Stack")
            /\ UNCHANGED <<profileData, editorVars>>
       ELSE /\ Len(SavedList(profileData[c], editing[c], BuildEntry(c, f)).v) <= MaxLen
            /\ LET d == [profileData EXCEPT
                           ![c] = SavedList(@, editing[c], BuildEntry(c, f))]
               IN  /\ RecordCount(d) <= MaxRecords
                   /\ profileData' = d
            /\ modalHidden' = [modalHidden EXCEPT ![c] = TRUE]
            /\ editing' = [editing EXCEPT ![c] = -1]
            /\ lastNotice' = Notice("success", SaveNotice(c))
    /\ UNCHANGED <<currentStep, isEditMode, form, viewVars, storage, location,
                   loadVars, netVars, asideVars>>

\* deleteEducation(index) .. deleteCertification(index), from a rendered
\* control; confirmed is the answer to confirm()
DeleteEntry(c, index, confirmed) ==
    /\ Alive
    /\ index \in RenderedIndices(profileData[c])
    /\ IF confirmed
       THEN /\ profileData' = [profileData EXCEPT ![c] = Splice(@, index)]
            /\ lastNotice' = Notice("success", "deleted")
       ELSE UNCHANGED <<profileData, lastNotice>>
    /\ UNCHANGED <<currentStep, isEditMode, editorVars, form, viewVars, storage,
                   location, loadVars, netVars, asideVars>>

-----------------------------------------------------------------------------
(* Submit *)

\* isUpdate without the stored user record
IsUpdateEditOnly(editMode, user) == editMode

\* const isUpdate = isEditMode || (user && user.profile_completed)
IsUpdate(editMode, user) == editMode \/ UserCompleted(user)

\* the request saveProfile sends for draft d; user is what getUser() returned
SubmitRequest(d, editMode, user) ==
    [method   |-> IF IsUpdate(editMode, user) THEN "PUT" ELSE "POST",
     endpoint |-> IF IsUpdate(editMode, user)
                  THEN "/api/v1/students/profile/update"
                  ELSE "/api/v1/students/profile/complete",
     body     |-> RequestBody(d),
     user     |-> user]

\* saveProfile() up to its await fetch(...), while fewer than bound responses
\* and resume timers are outstanding
SaveProfileWithin(bound) ==
    /\ Alive
    /\ Len(inflight) + timers < bound
    /\ profileData' = CollectForm(profileData, form)
    /\ inflight' = Append(inflight,
                          SubmitRequest(CollectForm(profileData, form),
                                        isEditMode, GetUser(storage)))
    /\ lastNotice' = Notice("info", "Saving your profile...")
    /\ UNCHANGED <<currentStep, isEditMode, editorVars, form, viewVars, storage,
                   location, loadVars, timers, lastSaved, asideVars>>

SaveProfile == SaveProfileWithin(MaxPending)

Remove(q, i) == [j \in 1..(Len(q) - 1) |-> IF j < i THEN q[j] ELSE q[j + 1]]

\* saveProfile() resumed by a response with response.ok and a JSON body
SaveProfileOk(i) ==
    /\ Alive
    /\ i \in DOMAIN inflight
    /\ inflight' = Remove(inflight, i)
    /\ storage' = IF Truthy(inflight[i].user)
                  THEN SetUser(storage,
                               Obj([inflight[i].user.v EXCEPT
                                      !.profile_completed = Bool(TRUE)]))
                  ELSE storage
    /\ isEditMode' = FALSE
    /\ lastNotice' = Notice("success", "Profile saved successfully!")
    /\ timers' = timers + 1
    /\ lastSaved' = inflight[i]
    /\ UNCHANGED <<currentStep, profileData, editorVars, form, viewVars, location,
                   loadVars, asideVars>>

\* saveProfile() resumed by a response that is not ok, by a rejected fetch or
\* by a body that is not JSON
SaveProfileFailed(i) ==
    /\ Alive
    /\ i \in DOMAIN inflight
    /\ inflight' = Remove(inflight, i)
    /\ lastNotice' = Notice("error", "Failed to save profile")
    /\ UNCHANGED <<currentStep, profileData, isEditMode, editorVars, form,
                   viewVars, storage, location, loadVars, timers, lastSaved,
                   asideVars>>

\* the setTimeout(() => showResumeView(), 1000) callback
ResumeTimer ==
    /\ Alive
    /\ timers > 0
    /\ timers' = timers - 1
    /\ lastSaved' = IF timers = 1 THEN Null ELSE lastSaved
    /\ ShowResumeView(profileData)
    /\ UNCHANGED <<currentStep, isEditMode, editorVars, form, storage, location,
                   loadVars, inflight, lastNotice, asideVars>>

-----------------------------------------------------------------------------
(* The module state of utils.js, jobs.js and analytics_dashboard.js as their
   scripts leave it when they are loaded *)

\* apiReturned before any apiCall has returned
NotReturned == [t |-> "pending"]

\* no apiCall made yet
ApiIdle ==
    /\ apiPending = <<>>
    /\ apiReturned = NotReturned

\* the filter inputs with nothing selected
NoFilters == [jobType |-> <<>>, source |-> <<>>, location |-> <<>>]

\* let currentPage = 1, before loadJobs has run
JobsIdle ==
    /\ currentPage = 1
    /\ jobFilters = NoFilters
    /\ jobsLog = <<>>
    /\ jobsPending = {}
    /\ pagination = Null

\* let currentChart = null; let currentRawData = []
DashIdle ==
    /\ currentChart = 0
    /\ liveCharts = {}
    /\ chartsMade = 0
    /\ chartSectionHidden = TRUE
    /\ tableRows = Undef
    /\ currentRawData = Arr(<<>>)
    /\ queriesPending = <<>>
    /\ queryIntent = Undef
    /\ resultsHidden = TRUE
    /\ csvOut = Undef

\* let unreadCount = 0; no notification clicked
NotifIdle ==
    /\ clicks = <<>>
    /\ notifLog = <<>>
    /\ unreadCount = 0
    /\ countPending = 0

\* neither loginWithGoogle nor handleOAuthCallback has run
OAuthIdle ==
    /\ loginRole = Null
    /\ oauth = [pc |-> "idle"]
    /\ lastAlert = Undef

-----------------------------------------------------------------------------
(* The profile page as a state machine *)

Tokens == {Null, Str(<<"t">>), Str(NullText)}

StoredUsers == {Null, JsonText(UserRecord(Bool(FALSE))),
                JsonText(UserRecord(Bool(TRUE)))}

\* the state once the DOMContentLoaded handler has run loadProfile() up to its
\* await: without a token the page has been left for the login route
Init ==
    /\ currentStep = 1
    /\ profileData = InitialDraft
    /\ isEditMode = FALSE
    /\ editing = [c \in Colls |-> -1]
    /\ modalHidden = [c \in Colls |-> TRUE]
    /\ form = FormBlank
    /\ wizardHidden = TRUE
    /\ resumeHidden = TRUE
    /\ storage \in [access_token : Tokens, user : StoredUsers]
    /\ location = IF GetToken(storage) = Null THEN "/auth/login" ELSE "page"
    /\ loadPc = IF GetToken(storage) = Null THEN "done" ELSE "fetch"
    /\ inflight = <<>>
    /\ timers = 0
    /\ lastSaved = Null
    /\ lastNotice = Notice("none", "")
    /\ loadedRaw = Undef
    /\ sanitizeLog = <<>>
    /\ ApiIdle /\ JobsIdle /\ DashIdle /\ NotifIdle /\ OAuthIdle

\* what a user types into an editor's form on the way through the wizard
WizardFills(c) == {f \in Fills(c) : BuildEntry(c, f) = SampleEntry(c)}

\* the sub-collections validateStep reads
WizardColls == {"education", "skills"}

\* The page's handlers, with the editors of the sub-collections validateStep
\* reads. The editors' open, edit and close handlers change only editing and
\* modalHidden, and the other three editors only their own sub-collection;
\* all five editors with all their handlers are EditorsNext.
Next ==
    \/ \E resp \in LoadResponses : LoadProfileSettle(resp)
    \/ EnterEditMode
    \/ \E p \in FormPresets : TypeForm(p)
    \/ NextStep
    \/ PrevStep
    \/ \E c \in WizardColls : \E f \in WizardFills(c) : SaveEntry(c, f)
    \/ \E c \in WizardColls : \E i \in 0..(MaxLen - 1) : \E ok \in BOOLEAN :
          DeleteEntry(c, i, ok)
    \/ SaveProfile
    \/ \E i \in 1..MaxPending : SaveProfileOk(i)
    \/ \E i \in 1..MaxPending : SaveProfileFailed(i)
    \/ ResumeTimer

Spec == Init /\ [][Next]_vars

-----------------------------------------------------------------------------
(* sanitizeProfileData as a function of the draft *)

SanitizeInit ==
    /\ profileData \in SanitizeInputs
    /\ sanitizeLog = <<profileData>>
    /\ currentStep = 1
    /\ isEditMode = FALSE
    /\ editing = [c \in Colls |-> -1]
    /\ modalHidden = [c \in Colls |-> TRUE]
    /\ form = FormBlank
    /\ wizardHidden = TRUE
    /\ resumeHidden = TRUE
    /\ storage = [access_token |-> Str(<<"t">>), user |-> Null]
    /\ location = "page"
    /\ loadPc = "done"
    /\ inflight = <<>>
    /\ timers = 0
    /\ lastSaved = Null
    /\ lastNotice = Notice("none", "")
    /\ loadedRaw = Undef
    /\ ApiIdle /\ JobsIdle /\ DashIdle /\ NotifIdle /\ OAuthIdle

\* one call of sanitizeProfileData()
ApplySanitize ==
    /\ Len(sanitizeLog) <= MaxSanitize
    /\ profileData' = SanitizeProfileData(profileData).d
    /\ sanitizeLog' = Append(sanitizeLog, profileData')
    /\ UNCHANGED <<currentStep, isEditMode, editorVars, form, viewVars, storage,
                   location, loadVars, netVars, lastNotice, apiVars, jobsVars,
                   dashVars, notifVars, oauthVars>>

SanitizeNext == ApplySanitize

SpecSanitize == SanitizeInit /\ [][SanitizeNext]_vars

-----------------------------------------------------------------------------
(* The sub-collection editors on a loaded page *)

\* the wizard of a user without a stored profile, or in edit mode on a stored
\* one
EditorsInit ==
    /\ profileData \in {InitialDraft, SanitizeProfileData(LoadedGood).d}
    /\ isEditMode = (profileData # InitialDraft)
    /\ currentStep = 1
    /\ editing = [c \in Colls |-> -1]
    /\ modalHidden = [c \in Colls |-> TRUE]
    /\ form = IF isEditMode THEN PopulatedForm(profileData) ELSE FormBlank
    /\ wizardHidden = FALSE
    /\ resumeHidden = TRUE
    /\ storage = [access_token |-> Str(<<"t">>),
                  user |-> JsonText(UserRecord(Bool(isEditMode)))]
    /\ location = "page"
    /\ loadPc = "done"
    /\ inflight = <<>>
    /\ timers = 0
    /\ lastSaved = Null
    /\ lastNotice = Notice("none", "")
    /\ loadedRaw = IF isEditMode THEN LoadedGood ELSE Undef
    /\ sanitizeLog = <<>>
    /\ ApiIdle /\ JobsIdle /\ DashIdle /\ NotifIdle /\ OAuthIdle

EditorsNext ==
    \/ \E c \in Colls : OpenForm(c)
    \/ \E c \in Colls : CloseModal(c)
    \/ \E c \in Colls : \E i \in 0..(MaxLen - 1) : EditEntry(c, i)
    \/ \E c \in Colls : \E f \in Fills(c) : SaveEntry(c, f)
    \/ \E c \in Colls : \E i \in 0..(MaxLen - 1) : \E ok \in BOOLEAN :
          DeleteEntry(c, i, ok)

SpecEditors == EditorsInit /\ [][EditorsNext]_vars

-----------------------------------------------------------------------------
(* Properties of the wizard's navigation and submit (Spec) *)

\* C1: in every reachable state the current step is an integer in 1..5;
\* nextStep never moves it past 5, prevStep never below 1, whatever sequence
\* of nextStep, prevStep, showWizardView, enterEditMode and saveProfile ran.
C1_StepInRange == currentStep \in 1..5

\* the last step has been reached by nextStep
C1_Witness == currentStep = 5 /\ ~wizardHidden

\* what the current step requires before it may be left
StepRequirementsMet ==
    /\ \A n \in RequiredInputs(currentStep) : Trim(form.text[n]) # <<>>
    /\ currentStep = 2 => Len(profileData.education.v) > 0
    /\ currentStep = 3 => Len(profileData.skills.v) > 0

\* C2: the step grows only by exactly one and only when every required field
\* of the current step is non-empty and, on step 2, education and, on step 3,
\* skills is non-empty; a nextStep whose check fails shows a warning and
\* leaves the step and the draft unchanged.
C2_NextStepValidated ==
    [][ /\ currentStep' > currentStep =>
              currentStep' = currentStep + 1 /\ StepRequirementsMet
        /\ NextStep /\ ~StepRequirementsMet =>
              /\ currentStep' = currentStep
              /\ profileData' = profileData
              /\ lastNotice' = "warning" ]_vars

\* step 3 reached with one education record, and nextStep blocked there for
\* want of a skill
C2_Witness ==
    /\ currentStep = 3
    /\ Len(profileData.education.v) = 1
    /\ Len(profileData.skills.v) = 0
    /\ lastNotice = "warning"

\* C3: saveProfile validates the current step: when the current step's
\* requirements are unmet nothing is transmitted.
C3_SubmitValidatesCurrentStep ==
    [][~wizardHidden /\ Len(inflight') > Len(inflight) => StepRequirementsMet]_vars

\* the stored user record has profile_completed set
StoredUserCompleted ==
    /\ storage.user.t = "json"
    /\ storage.user.v.t = "object"
    /\ storage.user.v.v.profile_completed = Bool(TRUE)

\* C10: a submit is sent as PUT to /students/profile/update exactly when edit
\* mode is on or the stored user record has profile_completed set, and as POST
\* to /students/profile/complete otherwise.
C10_MethodAndEndpoint ==
    [][Len(inflight') > Len(inflight) =>
          LET r == inflight'[Len(inflight')]
          IN  IF isEditMode \/ StoredUserCompleted
              THEN /\ r.method = "PUT"
                   /\ r.endpoint = "/api/v1/students/profile/update"
              ELSE /\ r.method = "POST"
                   /\ r.endpoint = "/api/v1/students/profile/complete"]_vars

\* an update sent outside edit mode, for a user already marked completed
C10_Witness ==
    /\ Len(inflight) = 1
    /\ inflight[1].method = "PUT"
    /\ ~isEditMode
    /\ StoredUserCompleted

\* C8: whenever the draft reaches a renderer each of the five sub-collections
\* is a sequence, and a loaded value of any other shape (single object, string,
\* null, missing) has been replaced by the empty sequence.
C8_SubCollectionsAreSequences ==
    /\ [](\A c \in Colls : IsArray(profileData[c]))
    /\ [][loadedRaw' # loadedRaw =>
            \A c \in Colls :
               IF IsArray(loadedRaw'[c])
               THEN Len(profileData'[c].v) = Len(loadedRaw'[c].v)
               ELSE profileData'[c] = Arr(<<>>)]_vars

\* the resume view shows a draft that was loaded with an object, a string,
\* null and a missing value in the place of sub-collections
C8_Witness ==
    /\ ~resumeHidden
    /\ loadedRaw # Undef
    /\ loadedRaw.education.t = "object" /\ profileData.education = Arr(<<>>)
    /\ loadedRaw.skills.t = "string" /\ profileData.skills = Arr(<<>>)
    /\ loadedRaw.experience = Null /\ profileData.experience = Arr(<<>>)
    /\ loadedRaw.certifications = Undef /\ profileData.certifications = Arr(<<>>)

-----------------------------------------------------------------------------
(* Properties of the sub-collection editors (SpecEditors) *)

\* C4: an accepted save after open-for-create appends exactly one record built
\* from the submitted fields and leaves the existing records unchanged; an
\* accepted save after open-for-edit(i) replaces the record at index i and
\* leaves the length and every other index unchanged.
C4_SaveAppendsOrReplaces ==
    [][\A c \in Colls : \A f \in Fills(c) :
          SaveEntry(c, f) /\ ~EntryRejected(c, f) =>
             LET old == profileData[c].v
                 new == profileData'[c].v
                 i   == editing[c]
             IN  IF i = -1 THEN new = Append(old, BuildEntry(c, f))
                 ELSE /\ Len(new) = Len(old)
                      /\ \A j \in 1..Len(old) :
                            new[j] = IF j = i + 1 THEN BuildEntry(c, f)
                                     ELSE old[j]]_vars

\* C5: a confirmed delete(i) with 0 <= i < n removes exactly the record at
\* index i, leaves the records before i in place and shifts every record after
\* i down by one; a declined delete leaves the sub-collection unchanged.
C5_DeleteRemovesAndShifts ==
    [][\A c \in Colls : \A i \in 0..(Len(profileData[c].v) - 1) :
          /\ DeleteEntry(c, i, TRUE) =>
                LET old == profileData[c].v
                    new == profileData'[c].v
                IN  /\ Len(new) = Len(old) - 1
                    /\ \A j \in 1..Len(new) :
                          new[j] = IF j <= i THEN old[j] ELSE old[j + 1]
          /\ DeleteEntry(c, i, FALSE) => profileData'[c] = profileData[c]]_vars

\* one of two education records was deleted while the other was open for edit
C5_Witness ==
    /\ Len(profileData.education.v) = 1
    /\ editing.education = 1

\* the technology-tag input yields no non-empty tag after splitting on commas
\* and trimming
NoTag(f) ==
    \A i \in DOMAIN SplitComma(f.proj_tech_stack, <<>>) :
       Trim(SplitComma(f.proj_tech_stack, <<>>)[i]) = <<>>

TaglessFills == {f \in ProjectFills : NoTag(f)}

\* C6: saving a project whose technology-tag input yields no tag is rejected
\* with a warning and mutates nothing: the projects, the editing sentinel and
\* the open edit surface stay as they were, in create and in edit mode.
C6_TaglessProjectRejected ==
    [][\A f \in TaglessFills :
          SaveEntry("projects", f) =>
             /\ profileData' = profileData
             /\ editing' = editing
             /\ modalHidden' = modalHidden
             /\ lastNotice' = "warning"]_vars

\* a rejected save of a project open for edit
C6_Witness ==
    /\ lastNotice = "warning"
    /\ ~modalHidden.projects
    /\ editing.projects = 0
    /\ Len(profileData.projects.v) = 1

-----------------------------------------------------------------------------
(* Properties of sanitizeProfileData (SpecSanitize); sanitizeLog holds the
   input draft, the draft after one application and after two *)

\* C7: sanitizeProfileData is idempotent: for every draft shape, applying it
\* twice yields the same draft as applying it once.
C7_SanitizeIdempotent ==
    Len(sanitizeLog) >= 3 => sanitizeLog[3] = sanitizeLog[2]

\* applied twice to a draft whose project holds its tags as a delimited string
C7_Witness ==
    /\ Len(sanitizeLog) = 3
    /\ IsArray(sanitizeLog[1].projects)
    /\ \E i \in DOMAIN sanitizeLog[1].projects.v :
          /\ sanitizeLog[1].projects.v[i].t = "object"
          /\ sanitizeLog[1].projects.v[i].v.tech_stack.t = "string"
          /\ Len(sanitizeLog[2].projects.v[i].v.tech_stack.v) = 2

\* C9 as claimed: after sanitizeProfileData, for every input draft, preferences
\* and links are objects that have all of their known keys, every key absent
\* from the input defaulted to null or the empty set.
C9_AllKnownKeys ==
    Len(sanitizeLog) >= 2 =>
       /\ sanitizeLog[2].preferences.t = "object"
       /\ \A k \in PrefKeys : sanitizeLog[2].preferences.v[k] # Undef
       /\ sanitizeLog[2].links.t = "object"
       /\ \A k \in LinkKeys : sanitizeLog[2].links.v[k] # Undef

\* C9 amended: after sanitizeProfileData preferences is an object whose
\* employment_type and work_mode are arrays and links is an object; they have
\* all their known keys, defaulted to null or the empty array, when the input
\* value was missing, null or not an object, and an input object keeps its
\* other keys as they were, absent ones absent.
C9_ObjectsWithArrays ==
    Len(sanitizeLog) >= 2 =>
       LET in  == sanitizeLog[1]
           out == sanitizeLog[2]
       IN  /\ out.preferences.t = "object"
           /\ IsArray(out.preferences.v.employment_type)
           /\ IsArray(out.preferences.v.work_mode)
           /\ out.links.t = "object"
           /\ IF in.preferences.t = "object"
              THEN \A k \in PrefKeys \ {"employment_type", "work_mode"} :
                      out.preferences.v[k] = in.preferences.v[k]
              ELSE \A k \in PrefKeys :
                      out.preferences.v[k] =
                         IF k \in {"employment_type", "work_mode"}
                         THEN Arr(<<>>) ELSE Null
           /\ IF in.links.t = "object" THEN out.links = in.links
              ELSE \A k \in LinkKeys : out.links.v[k] = Null

\* the initial draft's own preferences: {} : and links: {} sanitized
C9_Witness ==
    /\ Len(sanitizeLog) >= 2
    /\ sanitizeLog[1].preferences = EmptyObject(PrefKeys)
    /\ sanitizeLog[1].links = EmptyObject(LinkKeys)
    /\ sanitizeLog[2].preferences.v.preferred_roles = Undef
    /\ sanitizeLog[2].preferences.v.employment_type = Arr(<<>>)
    /\ sanitizeLog[2].links = EmptyObject(LinkKeys)


-----------------------------------------------------------------------------
(* Routing between the two views, and 401 responses *)

\* the response carried a non-empty draft
ReturnedDraft(resp) == resp.status = 200 /\ resp.data # Undef

\* C11: once loadProfile has settled exactly one of the wizard view and the
\* resume view is visible, and every later view switch keeps it so; the load
\* shows the resume view exactly when the response carried a non-empty draft,
\* and the wizard view at step 1 in every other case.
C11_ViewsFollowLoad ==
    /\ [](loadPc = "done" /\ Alive => wizardHidden # resumeHidden)
    /\ [][\A resp \in LoadResponses :
             LoadProfileSettle(resp) =>
                IF ReturnedDraft(resp)
                THEN wizardHidden' /\ ~resumeHidden'
                ELSE ~wizardHidden' /\ resumeHidden' /\ currentStep' = 1]_vars

\* the session store with neither token nor user
NoSession == [access_token |-> Null, user |-> Null]

\* C13: a 401 response to the profile load clears the stored session and
\* sends the browser to the login route.
C13_LoadUnauthorizedEndsSession ==
    [][\A resp \in LoadResponses :
          resp.status = 401 /\ LoadProfileSettle(resp) =>
             storage' = NoSession /\ location' = "/auth/login"]_vars

-----------------------------------------------------------------------------
(* The session store and apiCall (utils.js) as a state machine *)

MaxApi == 2

\* setToken(token)
SetToken(st, token) ==
    [st EXCEPT !.access_token = IF Truthy(token) THEN token ELSE Null]

\* removeToken() without its second removeItem
RemoveTokenOnly(st) == [st EXCEPT !.access_token = Null]

\* removeToken()
RemoveToken(st) == [st EXCEPT !.access_token = Null, !.user = Null]

\* isLoggedIn()
IsLoggedIn(st) == GetToken(st) # Null

\* `Bearer ${token}`
Bearer(token) == Str(<<"B", "e", "a", "r", "e", "r", " ">> \o token.v)

\* 'application/json'
JsonType ==
    Str(<<"a", "p", "p", "l", "i", "c", "a", "t", "i", "o", "n", "/",
          "j", "s", "o", "n">>)

\* options.headers of a caller: Undef for a header the caller does not name
NoHeaders == [content_type |-> Undef, authorization |-> Undef]

CallerHeaders ==
    {NoHeaders,
     [NoHeaders EXCEPT !.content_type = Str(<<"t", "e", "x", "t">>)],
     [NoHeaders EXCEPT !.authorization = Str(<<"B", "a", "s", "i", "c">>)]}

\* the headers apiCall sends
ApiHeaders(st, callerHeaders) ==
    LET token == GetToken(st)
        headers == [content_type  |-> IF callerHeaders.content_type # Undef
                                      THEN callerHeaders.content_type
                                      ELSE JsonType,
                    authorization |-> callerHeaders.authorization]
    IN  IF Truthy(token)
        THEN [headers EXCEPT !.authorization = Bearer(token)]
        ELSE headers

\* a Response object
Response(status) == [t |-> "response", status |-> status]

Statuses == {200, 401, 500}

\* what a page other than the session functions keeps
sessionIdle == <<currentStep, profileData, isEditMode, editorVars, form,
                 viewVars, loadVars, netVars, lastNotice, sanitizeLog,
                 jobsVars, dashVars, notifVars, oauthVars>>

\* apiCall(endpoint, options) up to its await
ApiCallSend(callerHeaders) ==
    /\ Alive /\ Len(apiPending) < MaxApi
    /\ apiPending' = Append(apiPending,
                            [headers |-> ApiHeaders(storage, callerHeaders)])
    /\ UNCHANGED <<storage, location, apiReturned, sessionIdle>>

\* apiCall resumed by the response to its i-th pending request
ApiCallSettle(i, status) ==
    /\ Alive /\ i \in DOMAIN apiPending
    /\ apiPending' = Remove(apiPending, i)
    /\ IF status = 401
       THEN /\ storage' = RemoveToken(storage)
            /\ location' = "/auth/login"
            /\ apiReturned' = Undef
       ELSE /\ apiReturned' = Response(status)
            /\ UNCHANGED <<storage, location>>
    /\ UNCHANGED sessionIdle

\* setToken(token) called by a page
SetTokenCall(token) ==
    /\ Alive
    /\ storage' = SetToken(storage, token)
    /\ UNCHANGED <<location, apiVars, sessionIdle>>

\* removeToken() called by a page
RemoveTokenCall ==
    /\ Alive
    /\ storage' = RemoveToken(storage)
    /\ UNCHANGED <<location, apiVars, sessionIdle>>

\* setUser(user) called by a page
SetUserCall(user) ==
    /\ Alive
    /\ storage' = SetUser(storage, user)
    /\ UNCHANGED <<location, apiVars, sessionIdle>>

\* logout(); confirmed is the answer to its confirm()
Logout(confirmed) ==
    /\ Alive
    /\ IF confirmed
       THEN /\ storage' = NoSession
            /\ location' = "/"
       ELSE UNCHANGED <<storage, location>>
    /\ UNCHANGED <<apiVars, sessionIdle>>

\* tokens and users the pages hand to setToken and setUser
TokenArgs ==
    {Null, Undef, Str(<<>>), Str(<<" ">>), Str(<<"t">>), Str(NullText),
     Str(UndefinedText)}

UserArgs == {Null, UserRecord(Bool(FALSE)), UserRecord(Bool(TRUE))}

\* a page of the portal with utils.js loaded; the store holds what an earlier
\* visit left
SessionInit ==
    /\ currentStep = 1
    /\ profileData = InitialDraft
    /\ isEditMode = FALSE
    /\ editing = [c \in Colls |-> -1]
    /\ modalHidden = [c \in Colls |-> TRUE]
    /\ form = FormBlank
    /\ wizardHidden = TRUE
    /\ resumeHidden = TRUE
    /\ storage \in [access_token : {Null, Str(<<>>), Str(<<"t">>)},
                    user : {Null}]
    /\ location = "page"
    /\ loadPc = "start"
    /\ inflight = <<>>
    /\ timers = 0
    /\ lastSaved = Null
    /\ lastNotice = Notice("none", "")
    /\ loadedRaw = Undef
    /\ sanitizeLog = <<>>
    /\ ApiIdle /\ JobsIdle /\ DashIdle /\ NotifIdle /\ OAuthIdle

SessionNext ==
    \/ \E token \in TokenArgs : SetTokenCall(token)
    \/ RemoveTokenCall
    \/ \E user \in UserArgs : SetUserCall(user)
    \/ \E confirmed \in BOOLEAN : Logout(confirmed)
    \/ \E h \in CallerHeaders : ApiCallSend(h)
    \/ \E i \in 1..MaxApi : \E status \in Statuses : ApiCallSettle(i, status)

SpecSession == SessionInit /\ [][SessionNext]_vars

-----------------------------------------------------------------------------
(* Properties of the session store and apiCall (SpecSession) *)

\* the headers of the request apiCall sent last
LastSent == apiPending[Len(apiPending)].headers

\* what apiCall does with a response, as the contract states it
SettlesAsStated ==
    \A i \in 1..MaxApi : \A status \in Statuses :
       ApiCallSettle(i, status) =>
          IF status = 401
          THEN /\ storage' = NoSession
               /\ location' = "/auth/login"
               /\ apiReturned' = Undef
          ELSE /\ apiReturned' = Response(status)
               /\ storage' = storage
               /\ location' = location

\* C12 as stated: every call carries Authorization: Bearer <token> and a JSON
\* content-type; a 401 clears the session, redirects to the login route and
\* returns nothing; any other status returns the response and leaves the
\* session unchanged.
C12_EveryCallAuthorized ==
    [][/\ \A h \in CallerHeaders :
             ApiCallSend(h) =>
                /\ storage.access_token.t = "string"
                /\ LastSent'.authorization = Bearer(storage.access_token)
                /\ LastSent'.content_type = JsonType
       /\ SettlesAsStated]_vars

\* the stored token is one getToken hands out
UsableToken ==
    /\ storage.access_token.t = "string"
    /\ \E i \in 1..Len(storage.access_token.v) :
          ~IsSpace(storage.access_token.v[i])
    /\ storage.access_token.v \notin {NullText, UndefinedText}

\* C12, amended: a call carries Authorization: Bearer <token> when the store
\* holds a usable token and the caller's own Authorization header (or none)
\* otherwise; its content-type is the caller's when the caller names one and
\* JSON otherwise; responses are handled as stated.
C12_AuthorizedWhenTokenStored ==
    [][/\ \A h \in CallerHeaders :
             ApiCallSend(h) =>
                /\ LastSent'.authorization =
                      IF UsableToken THEN Bearer(storage.access_token)
                      ELSE h.authorization
                /\ LastSent'.content_type =
                      IF h.content_type = Undef THEN JsonType
                      ELSE h.content_type
       /\ SettlesAsStated]_vars

\* a 401 has ended a session while a request sent with the token is still
\* unanswered
C12_Witness ==
    /\ location = "/auth/login"
    /\ storage = NoSession
    /\ apiReturned = Undef
    /\ Len(apiPending) = 1
    /\ apiPending[1].headers.authorization = Bearer(Str(<<"t">>))

\* the stored access_token is absent, empty, "null" or "undefined"
TokenRejectedAsStated ==
    \/ storage.access_token = Null
    \/ storage.access_token.v \in {<<>>, NullText, UndefinedText}

\* C14 as stated: getToken returns null exactly when the stored access_token
\* is absent, empty, "null" or "undefined", and the stored token otherwise;
\* isLoggedIn is true exactly when getToken is non-null; removeToken leaves
\* neither token nor user stored.
C14_GetTokenNullAsStated ==
    /\ [](/\ GetToken(storage) =
                IF TokenRejectedAsStated THEN Null ELSE storage.access_token
          /\ IsLoggedIn(storage) <=> GetToken(storage) # Null)
    /\ [][RemoveTokenCall => storage' = NoSession]_vars

\* C14, amended: getToken returns null exactly when the stored access_token
\* is absent, empty, made of white space only, "null" or "undefined", and the
\* stored token otherwise; isLoggedIn is true exactly when getToken is
\* non-null; removeToken leaves neither token nor user stored.
C14_GetTokenNullOrBlank ==
    /\ [](/\ GetToken(storage) =
                IF UsableToken THEN storage.access_token ELSE Null
          /\ IsLoggedIn(storage) <=> GetToken(storage) # Null)
    /\ [][RemoveTokenCall => storage' = NoSession]_vars

\* a white-space token is stored next to a user: the page is not logged in
C14_Witness ==
    /\ storage.access_token = Str(<<" ">>)
    /\ storage.user # Null
    /\ ~IsLoggedIn(storage)

-----------------------------------------------------------------------------
(* The jobs browser (jobs.js) as a state machine *)

MaxPage == 3
MaxFetches == 3

\* const limit = 20
limit == 20

\* what the three filter inputs can hold: '' is "all"
FilterValues ==
    [jobType  |-> {<<>>, <<"f", "t">>},
     source   |-> {<<>>, <<"a", "i">>},
     location |-> {<<>>, <<"h">>}]

FilterKeys == {"jobType", "source", "location"}

\* a query parameter loadJobs appends only for a non-empty input
Param(value) == IF value # <<>> THEN Str(value) ELSE Undef

\* the url of loadJobs without its filter parameters
JobsRequestPageOnly(page, filters) ==
    [page |-> page, limit |-> limit,
     job_type |-> Undef, source |-> Undef, location |-> Undef]

\* the url loadJobs fetches, as its query parameters
JobsRequest(page, filters) ==
    [page |-> page, limit |-> limit,
     job_type |-> Param(filters.jobType),
     source   |-> Param(filters.source),
     location |-> Param(filters.location)]

\* previousPage() without its test
HasPreviousAlways(page) == TRUE

\* previousPage(): if (currentPage > 1)
HasPrevious(page) == page > 1

\* what the jobs page never touches
jobsIdle == <<currentStep, profileData, isEditMode, editorVars, form,
              viewVars, storage, location, loadVars, netVars, lastNotice,
              sanitizeLog, apiVars, dashVars, notifVars, oauthVars>>

\* loadJobs() up to its await, at page number page
LoadJobs(page) ==
    /\ jobsLog' = Append(jobsLog, JobsRequest(page, jobFilters))
    /\ jobsPending' = jobsPending \cup {Len(jobsLog) + 1}

\* the user changes one of the filter inputs
SetFilter(k, value) ==
    /\ Alive
    /\ jobFilters' = [jobFilters EXCEPT ![k] = value]
    /\ UNCHANGED <<currentPage, jobsLog, jobsPending, pagination, jobsIdle>>

\* nextPage()
NextPage ==
    /\ Alive /\ currentPage < MaxPage /\ Len(jobsLog) < MaxFetches
    /\ currentPage' = currentPage + 1
    /\ LoadJobs(currentPage + 1)
    /\ UNCHANGED <<jobFilters, pagination, jobsIdle>>

\* previousPage()
PreviousPage ==
    /\ Alive /\ Len(jobsLog) < MaxFetches
    /\ IF HasPrevious(currentPage)
       THEN /\ currentPage' = currentPage - 1
            /\ LoadJobs(currentPage - 1)
       ELSE UNCHANGED <<currentPage, jobsLog, jobsPending>>
    /\ UNCHANGED <<jobFilters, pagination, jobsIdle>>

\* data.pagination of the response to a request for page page; whether more
\* pages follow is the server's to say
Paginations(page) ==
    {[page |-> page, has_prev |-> page > 1, has_next |-> n] : n \in BOOLEAN}

\* loadJobs resumed by the response to request i: displayJobs and
\* updatePagination
LoadJobsOk(i, p) ==
    /\ Alive /\ i \in jobsPending
    /\ jobsPending' = jobsPending \ {i}
    /\ pagination' = p
    /\ UNCHANGED <<currentPage, jobFilters, jobsLog, jobsIdle>>

\* loadJobs resumed by a rejected fetch or a body that is not JSON
LoadJobsFailed(i) ==
    /\ Alive /\ i \in jobsPending
    /\ jobsPending' = jobsPending \ {i}
    /\ UNCHANGED <<currentPage, jobFilters, jobsLog, pagination, jobsIdle>>

\* the jobs page once its DOMContentLoaded handler has called loadJobs()
JobsInit ==
    /\ currentStep = 1
    /\ profileData = InitialDraft
    /\ isEditMode = FALSE
    /\ editing = [c \in Colls |-> -1]
    /\ modalHidden = [c \in Colls |-> TRUE]
    /\ form = FormBlank
    /\ wizardHidden = TRUE
    /\ resumeHidden = TRUE
    /\ storage = NoSession
    /\ location = "page"
    /\ loadPc = "start"
    /\ inflight = <<>>
    /\ timers = 0
    /\ lastSaved = Null
    /\ lastNotice = Notice("none", "")
    /\ loadedRaw = Undef
    /\ sanitizeLog = <<>>
    /\ ApiIdle /\ DashIdle /\ NotifIdle /\ OAuthIdle
    /\ currentPage = 1
    /\ jobFilters = NoFilters
    /\ jobsLog = <<JobsRequest(1, NoFilters)>>
    /\ jobsPending = {1}
    /\ pagination = Null

JobsNext ==
    \/ \E k \in FilterKeys : \E value \in FilterValues[k] : SetFilter(k, value)
    \/ NextPage
    \/ PreviousPage
    \/ \E i \in jobsPending : \E p \in Paginations(jobsLog[i].page) :
          LoadJobsOk(i, p)
    \/ \E i \in jobsPending : LoadJobsFailed(i)

SpecJobs == JobsInit /\ [][JobsNext]_vars

-----------------------------------------------------------------------------
(* Properties of the jobs browser (SpecJobs) *)

\* C15: the page number of the jobs browser is at least 1 in every reachable
\* state, whatever nextPage and previousPage calls and fetch completions
\* happened.
C15_PageAtLeastOne == currentPage >= 1

\* the browser went to page 2 and back, and previousPage was the last to fetch
C15_Witness ==
    /\ currentPage = 1
    /\ Len(jobsLog) = 3
    /\ jobsLog[2].page = 2
    /\ jobsLog[3].page = 1

\* the request issued last
LastRequest == jobsLog[Len(jobsLog)]

\* exactly one request was added to those issued; it asks for page page with
\* page size 20
OneFetchOfPage(page) ==
    /\ Len(jobsLog') = Len(jobsLog) + 1
    /\ SubSeq(jobsLog', 1, Len(jobsLog)) = jobsLog
    /\ LastRequest'.page = page
    /\ LastRequest'.limit = 20

\* C16 as stated: every call of nextPage or previousPage issues exactly one
\* request for the jobs list, with the updated page number, page size 20 and
\* the filter values of the previous request.
C16_RefetchWithSameFilters ==
    [][(NextPage \/ PreviousPage) =>
          /\ OneFetchOfPage(currentPage')
          /\ currentPage' # currentPage
          /\ LastRequest'.job_type = LastRequest.job_type
          /\ LastRequest'.source = LastRequest.source
          /\ LastRequest'.location = LastRequest.location]_vars

\* the value of a filter input as the request carries it: nothing for ''
Carried(value) == IF value = <<>> THEN Undef ELSE Str(value)

\* C16, amended: nextPage, and previousPage above page 1, issue exactly one
\* request for the jobs list, with the updated page number, page size 20 and
\* the values the three filter inputs hold at the time of the call (an empty
\* input is left out); previousPage at page 1 issues no request and leaves
\* the page number at 1.
C16_RefetchWithCurrentFilters ==
    [][/\ NextPage => /\ currentPage' = currentPage + 1
                      /\ OneFetchOfPage(currentPage + 1)
       /\ PreviousPage =>
             IF currentPage > 1
             THEN /\ currentPage' = currentPage - 1
                  /\ OneFetchOfPage(currentPage - 1)
             ELSE /\ currentPage' = 1
                  /\ jobsLog' = jobsLog
       /\ (NextPage \/ PreviousPage) /\ jobsLog' # jobsLog =>
             /\ LastRequest'.job_type = Carried(jobFilters.jobType)
             /\ LastRequest'.source = Carried(jobFilters.source)
             /\ LastRequest'.location = Carried(jobFilters.location)]_vars

\* nextPage fetched page 2 with a location filter the first fetch did not
\* have, and previousPage then fetched page 1 with it
C16_Witness ==
    /\ Len(jobsLog) = 3
    /\ jobsLog[1].location = Undef
    /\ jobsLog[2].page = 2 /\ jobsLog[2].location = Str(<<"h">>)
    /\ jobsLog[3].page = 1 /\ jobsLog[3].location = Str(<<"h">>)

-----------------------------------------------------------------------------
(* The analytics dashboard (analytics_dashboard.js): query results, the chart
   and the table *)

MaxCharts == 2
MaxQueries == 2

UpperCase == <<"A", "B", "C", "D", "E", "F", "G", "H", "I", "J", "K", "L", "M",
               "N", "O", "P", "Q", "R", "S", "T", "U", "V", "W", "X", "Y", "Z">>

LowerCase == <<"a", "b", "c", "d", "e", "f", "g", "h", "i", "j", "k", "l", "m",
               "n", "o", "p", "q", "r", "s", "t", "u", "v", "w", "x", "y", "z">>

\* String.prototype.toLowerCase
ToLowerCase(s) ==
    [i \in 1..Len(s) |->
        IF \E j \in 1..Len(UpperCase) : UpperCase[j] = s[i]
        THEN LowerCase[CHOOSE j \in 1..Len(UpperCase) : UpperCase[j] = s[i]]
        ELSE s[i]]

TableType     == <<"t", "a", "b", "l", "e">>
BarType       == <<"b", "a", "r">>
LineType      == <<"l", "i", "n", "e">>
PieType       == <<"p", "i", "e">>
DoughnutType  == <<"d", "o", "u", "g", "h", "n", "u", "t">>
RadarType     == <<"r", "a", "d", "a", "r">>
PolarAreaType == <<"p", "o", "l", "a", "r", "A", "r", "e", "a">>

\* const validChartTypes = ['bar', 'line', 'pie', 'doughnut', 'radar', 'polarArea']
validChartTypes ==
    {BarType, LineType, PieType, DoughnutType, RadarType, PolarAreaType}

\* the chart types the chart library has a controller for, among those the
\* dashboard can ask for
RegisteredTypes == validChartTypes

\* chart_type values of query results: the recognized types, "table" and
\* "pie" in other letter cases, and a type that is not recognized
ChartTypes ==
    validChartTypes \cup
       {TableType, <<"T", "a", "b", "l", "e">>, <<"P", "I", "E">>,
        <<"g", "a", "u", "g", "e">>}

\* displayResults: data.chart_type === 'table', as written without toLowerCase
IsTableExact(chartType) == chartType = TableType

\* displayResults: data.chart_type.toLowerCase() === 'table'
IsTable(chartType) == ToLowerCase(chartType) = TableType

\* renderChart: the type put into the chart's config
ConfigType(chartType) ==
    IF ToLowerCase(chartType) \in validChartTypes THEN chartType ELSE BarType

\* renderChart: currentChart.destroy() if there is a current chart
DestroyCurrent(chart, live) ==
    IF chart # 0 THEN {c \in live : c.id # chart} ELSE live

\* new Chart(canvas, config) within renderChart's try. The library throws for
\* a type it has no controller for; whether the instance it had begun to set
\* up stays registered on the canvas (left), and whether it refuses a canvas
\* that still has an instance (strict), differ between versions of the
\* library.
NewChart(live, type, strict, left) ==
    IF live # {} /\ strict THEN [created |-> FALSE, returned |-> FALSE]
    ELSE IF type \in RegisteredTypes THEN [created |-> TRUE, returned |-> TRUE]
    ELSE [created |-> left, returned |-> FALSE]

\* renderChart(chartType, chartData)
RenderChart(chartType, strict, left) ==
    LET live == DestroyCurrent(currentChart, liveCharts)
        made == NewChart(live, ConfigType(chartType), strict, left)
        id   == chartsMade + 1
    IN  IF ToLowerCase(chartType) = TableType
        THEN /\ currentChart' = 0
             /\ liveCharts' = live
             /\ UNCHANGED chartsMade
        ELSE /\ liveCharts' = live \cup
                   (IF made.created
                    THEN {[id |-> id, type |-> ConfigType(chartType)]}
                    ELSE {})
             /\ chartsMade' = IF made.created THEN id ELSE chartsMade
             /\ currentChart' = IF made.returned THEN id ELSE 0

\* a row of raw data: its keys in their order, each with a value
Row(pairs) == [t |-> "row", pairs |-> pairs]

\* Object.keys(row)
Keys(row) == [i \in 1..Len(row.pairs) |-> row.pairs[i][1]]

\* row[col]
Get(row, col) ==
    IF \E i \in 1..Len(row.pairs) : row.pairs[i][1] = col
    THEN row.pairs[CHOOSE i \in 1..Len(row.pairs) : row.pairs[i][1] = col][2]
    ELSE Undef

Quote == "\""

RowPlain   == Row(<<<<<<"a">>, Str(<<"x">>)>>, <<<<"b">>, Num(7)>>>>)
RowQuoted  == Row(<<<<<<"a">>, Str(<<Quote, "x", Quote>>)>>,
                    <<<<"b">>, Str(<<"y", ",", "z">>)>>>>)
RowLines   == Row(<<<<<<"a">>, Str(<<"x", "\n", "y">>)>>,
                    <<<<"b">>, Bool(TRUE)>>>>)
RowNull    == Row(<<<<<<"a">>, Null>>, <<<<"b">>, Str(<<"x">>)>>>>)
RowShort   == Row(<<<<<<"b">>, Str(<<>>)>>>>)
RowOther   == Row(<<<<<<"c">>, Num(12)>>, <<<<"a">>, Str(<<"x">>)>>>>)
RowQuotedKey == Row(<<<<<<"a", Quote>>, Num(0)>>>>)

\* data.raw_data of query results; Undef when the response has none
RawDatas ==
    {Undef, Arr(<<>>), Arr(<<RowPlain>>), Arr(<<RowQuoted, RowLines>>),
     Arr(<<RowPlain, RowNull>>), Arr(<<RowPlain, RowShort>>),
     Arr(<<RowOther, RowPlain>>), Arr(<<RowQuotedKey>>)}

\* the responses to a query that displayResults can lay out: every chart
\* type with little data, and every shape of data with two chart types
QueryResults ==
    [chart_type : ChartTypes, raw_data : {Undef, Arr(<<RowPlain>>)}]

ExportResults == [chart_type : {TableType, BarType}, raw_data : RawDatas]

\* what the dashboard never touches
dashIdle == <<currentStep, profileData, isEditMode, editorVars, form,
              viewVars, storage, loadVars, netVars, lastNotice, sanitizeLog,
              apiVars, jobsVars, notifVars, oauthVars>>

\* the queries a user submits
Queries == {<<"q", "a">>, <<"q", "b">>}

\* a submission that sends nothing while the same query is unanswered
SendQueryOnce(pending, query) ==
    IF \E i \in DOMAIN pending : pending[i] = query THEN pending
    ELSE Append(pending, query)

\* handleQuerySubmit: fetch(`${API_BASE}/query`, ...) with body { query }
SendQuery(pending, query) == Append(pending, query)

\* handleQuerySubmit() with a non-empty query, up to its await: showLoading()
HandleQuerySubmit(query) ==
    /\ Alive /\ Len(queriesPending) < MaxQueries
    /\ queriesPending' = SendQuery(queriesPending, query)
    /\ chartSectionHidden' = TRUE
    /\ resultsHidden' = TRUE
    /\ UNCHANGED <<currentChart, liveCharts, chartsMade, tableRows,
                   currentRawData, queryIntent, csvOut, location, dashIdle>>

\* handleQuerySubmit resumed by an ok response to its i-th unanswered query:
\* displayResults(data). The result's query_intent tells the query it answers.
QueryOkOf(i, data, strict, left) ==
    /\ Alive /\ i \in DOMAIN queriesPending /\ chartsMade < MaxCharts
    /\ queriesPending' = Remove(queriesPending, i)
    /\ currentRawData' = IF Truthy(data.raw_data) THEN data.raw_data
                         ELSE Arr(<<>>)
    /\ resultsHidden' = FALSE
    /\ queryIntent' = Str(queriesPending[i])
    /\ IF IsTable(data.chart_type)
       THEN /\ chartSectionHidden' = TRUE
            /\ UNCHANGED <<currentChart, liveCharts, chartsMade>>
       ELSE /\ chartSectionHidden' = FALSE
            /\ RenderChart(data.chart_type, strict, left)
    /\ tableRows' = data.raw_data
    /\ UNCHANGED <<csvOut, location, dashIdle>>

\* handleQuerySubmit resumed by an ok response
QueryOk(data, strict, left) ==
    \E i \in DOMAIN queriesPending : QueryOkOf(i, data, strict, left)

\* handleQuerySubmit resumed by a 401
QueryUnauthorized ==
    /\ Alive
    /\ \E i \in DOMAIN queriesPending :
          queriesPending' = Remove(queriesPending, i)
    /\ location' = "/auth/login"
    /\ UNCHANGED <<currentChart, liveCharts, chartsMade, chartSectionHidden,
                   tableRows, currentRawData, queryIntent, resultsHidden,
                   csvOut, dashIdle>>

\* handleQuerySubmit resumed by another response that is not ok, a rejected
\* fetch or a body that is not JSON: showError(message)
QueryFailed ==
    /\ Alive
    /\ \E i \in DOMAIN queriesPending :
          queriesPending' = Remove(queriesPending, i)
    /\ resultsHidden' = TRUE
    /\ UNCHANGED <<currentChart, liveCharts, chartsMade, chartSectionHidden,
                   tableRows, currentRawData, queryIntent, csvOut, location,
                   dashIdle>>

\* value.replace(/"/g, '""')
RECURSIVE DoubleQuotes(_)
DoubleQuotes(s) ==
    IF s = <<>> THEN <<>>
    ELSE IF Head(s) = Quote THEN <<Quote, Quote>> \o DoubleQuotes(Tail(s))
    ELSE <<Head(s)>> \o DoubleQuotes(Tail(s))

\* String(value) of a value that is neither null nor undefined
StringOf(value) ==
    CASE value.t = "string"  -> value.v
      [] value.t = "number"  -> NumToStr(value.v)
      [] value.t = "boolean" -> IF value.v THEN <<"t", "r", "u", "e">>
                                ELSE <<"f", "a", "l", "s", "e">>

\* `"${value}"`
Quoted(s) == <<Quote>> \o s \o <<Quote>>

\* Array.prototype.join(',')
RECURSIVE JoinComma(_)
JoinComma(parts) ==
    IF parts = <<>> THEN <<>>
    ELSE IF Len(parts) = 1 THEN parts[1]
    ELSE parts[1] \o <<",">> \o JoinComma(Tail(parts))

\* exportToCSV's field without value.replace(/"/g, '""')
CsvFieldAsIs(value) ==
    IF value = Null \/ value = Undef THEN <<>>
    ELSE Quoted(StringOf(value))

\* exportToCSV: the field written for row[col]
CsvField(value) ==
    IF value = Null \/ value = Undef THEN <<>>
    ELSE Quoted(DoubleQuotes(StringOf(value)))

\* exportToCSV: the line written for a row
CsvLine(row, columns) ==
    JoinComma([j \in 1..Len(columns) |-> CsvField(Get(row, columns[j]))])
      \o <<"\n">>

RECURSIVE CsvLines(_, _)
CsvLines(rows, columns) ==
    IF rows = <<>> THEN <<>>
    ELSE CsvLine(Head(rows), columns) \o CsvLines(Tail(rows), columns)

\* exportToCSV: the text of the file
Csv(rows) ==
    LET columns == Keys(rows[1])
    IN  JoinComma([j \in 1..Len(columns) |->
                      Quoted(DoubleQuotes(columns[j]))]) \o <<"\n">>
          \o CsvLines(rows, columns)

\* exportToCSV()
ExportToCSV ==
    /\ Alive
    /\ csvOut' = IF currentRawData.v = <<>> THEN csvOut
                 ELSE Str(Csv(currentRawData.v))
    /\ UNCHANGED <<currentChart, liveCharts, chartsMade, chartSectionHidden,
                   tableRows, currentRawData, queriesPending, queryIntent,
                   resultsHidden, location,
                   dashIdle>>

\* the dashboard page once it is initialized with a token stored
DashInit ==
    /\ currentStep = 1
    /\ profileData = InitialDraft
    /\ isEditMode = FALSE
    /\ editing = [c \in Colls |-> -1]
    /\ modalHidden = [c \in Colls |-> TRUE]
    /\ form = FormBlank
    /\ wizardHidden = TRUE
    /\ resumeHidden = TRUE
    /\ storage = [access_token |-> Str(<<"t">>), user |-> Null]
    /\ location = "page"
    /\ loadPc = "start"
    /\ inflight = <<>>
    /\ timers = 0
    /\ lastSaved = Null
    /\ lastNotice = Notice("none", "")
    /\ loadedRaw = Undef
    /\ sanitizeLog = <<>>
    /\ ApiIdle /\ JobsIdle /\ DashIdle /\ NotifIdle /\ OAuthIdle

DashNext ==
    \/ \E query \in Queries : HandleQuerySubmit(query)
    \/ \E data \in QueryResults : \E strict, left \in BOOLEAN :
          QueryOk(data, strict, left)
    \/ QueryUnauthorized
    \/ QueryFailed
    \/ ExportToCSV

SpecDashboard == DashInit /\ [][DashNext]_vars

ExportNext ==
    \/ \E query \in Queries : HandleQuerySubmit(query)
    \/ \E data \in ExportResults : \E strict, left \in BOOLEAN :
          QueryOk(data, strict, left)
    \/ QueryUnauthorized
    \/ QueryFailed
    \/ ExportToCSV

SpecExport == DashInit /\ [][ExportNext]_vars

-----------------------------------------------------------------------------
(* Properties of the dashboard's chart and table (SpecDashboard) *)

\* the results whose chart_type is "table" in some letter case
TableResults ==
    {data \in QueryResults : ToLowerCase(data.chart_type) = TableType}

\* C17: a query result whose chart_type is "table" in any letter case leaves
\* the chart container hidden, creates no chart instance and renders the data
\* table.
C17_TableSuppressesChart ==
    [][\A data \in TableResults : \A strict, left \in BOOLEAN :
          QueryOk(data, strict, left) =>
                /\ chartSectionHidden'
                /\ chartsMade' = chartsMade
                /\ liveCharts' = liveCharts
                /\ tableRows' = data.raw_data]_vars

\* the chart container is hidden and the table rendered while the chart of an
\* earlier result is still there
C17_Witness ==
    /\ chartSectionHidden
    /\ tableRows = Arr(<<RowPlain>>)
    /\ currentChart # 0
    /\ queriesPending = <<>>

\* the chart container shows a chart of the given type, held by currentChart
ChartShown(type) ==
    /\ ~chartSectionHidden
    /\ currentChart # 0
    /\ [id |-> currentChart, type |-> type] \in liveCharts

\* C18: a result whose chart_type is one of bar, line, pie, doughnut, radar,
\* polarArea gets the table and a chart of that type; a result whose
\* chart_type is neither one of them nor "table" gets a chart of type bar.
C18_ChartOfRequestedType ==
    [][\A data \in QueryResults : \A strict, left \in BOOLEAN :
          QueryOk(data, strict, left) =>
             /\ data.chart_type \in validChartTypes =>
                   /\ ChartShown(data.chart_type)'
                   /\ tableRows' = data.raw_data
             /\ data.chart_type \notin validChartTypes
                   /\ ToLowerCase(data.chart_type) # TableType =>
                      ChartShown(BarType)']_vars

\* C19: at most one chart instance that was not destroyed exists, it is the
\* one currentChart refers to, and whenever a chart is constructed every
\* instance constructed before it has been destroyed.
C19_OneLiveChart ==
    /\ [](/\ Cardinality(liveCharts) <= 1
          /\ \A c \in liveCharts : c.id = currentChart)
    /\ [][chartsMade' > chartsMade => liveCharts \cap liveCharts' = {}]_vars

-----------------------------------------------------------------------------
(* Properties of the CSV export (SpecExport) *)

\* the pieces of text between the separators sep that are outside double
\* quotes
RECURSIVE SplitOutside(_, _, _, _)
SplitOutside(text, sep, inQuotes, cur) ==
    IF text = <<>> THEN <<cur>>
    ELSE IF Head(text) = sep /\ ~inQuotes
    THEN <<cur>> \o SplitOutside(Tail(text), sep, FALSE, <<>>)
    ELSE SplitOutside(Tail(text), sep,
                      IF Head(text) = Quote THEN ~inQuotes ELSE inQuotes,
                      Append(cur, Head(text)))

\* the lines of a CSV text, each ended by a line break outside quotes
CsvRecords(text) ==
    LET pieces == SplitOutside(text, "\n", FALSE, <<>>)
    IN  IF pieces[Len(pieces)] = <<>>
        THEN SubSeq(pieces, 1, Len(pieces) - 1)
        ELSE pieces

\* the comma-separated fields of a line
CsvFields(line) == SplitOutside(line, ",", FALSE, <<>>)

\* text with each pair of double quotes read as one; a double quote that is
\* not doubled makes it unreadable
RECURSIVE Undoubled(_)
Undoubled(s) ==
    IF s = <<>> THEN [ok |-> TRUE, v |-> <<>>]
    ELSE IF Head(s) # Quote
    THEN LET rest == Undoubled(Tail(s))
         IN  [ok |-> rest.ok, v |-> <<Head(s)>> \o rest.v]
    ELSE IF Len(s) >= 2 /\ s[2] = Quote
    THEN LET rest == Undoubled(Tail(Tail(s)))
         IN  [ok |-> rest.ok, v |-> <<Quote>> \o rest.v]
    ELSE [ok |-> FALSE, v |-> <<>>]

\* field is text wrapped in double quotes with its double quotes doubled
IsQuotedForm(field, text) ==
    /\ Len(field) >= 2
    /\ field[1] = Quote /\ field[Len(field)] = Quote
    /\ Undoubled(SubSeq(field, 2, Len(field) - 1)) = [ok |-> TRUE, v |-> text]

\* the text of a value as String() gives it; null and undefined as the words
TextOf(value) ==
    CASE value = Null  -> NullText
      [] value = Undef -> UndefinedText
      [] OTHER         -> StringOf(value)

\* out has one line for the header and one per row, each of as many fields
\* as the first row has keys, and the header holds the keys in quoted form
CsvShape(rows, out) ==
    LET columns == Keys(rows[1])
        lines   == CsvRecords(out)
    IN  /\ Len(lines) = Len(rows) + 1
        /\ \A i \in 1..Len(lines) : Len(CsvFields(lines[i])) = Len(columns)
        /\ \A j \in 1..Len(columns) :
              IsQuotedForm(CsvFields(lines[1])[j], columns[j])

\* C20 as stated: exporting R >= 1 rows whose first row has C keys gives R+1
\* lines of C comma-separated fields each, and every value is wrapped in
\* double quotes with its double quotes doubled.
C20_EveryValueQuoted ==
    [][ExportToCSV /\ currentRawData.v # <<>> =>
          LET rows    == currentRawData.v
              columns == Keys(rows[1])
              lines   == CsvRecords(csvOut'.v)
          IN  /\ CsvShape(rows, csvOut'.v)
              /\ \A i \in 1..Len(rows) : \A j \in 1..Len(columns) :
                    IsQuotedForm(CsvFields(lines[i + 1])[j],
                                 TextOf(Get(rows[i], columns[j])))]_vars

\* C20, amended: exporting R >= 1 rows whose first row has C keys gives R+1
\* lines of C comma-separated fields each; a value that is null or missing
\* from its row is written as an empty field without quotes, and every other
\* value is wrapped in double quotes with its double quotes doubled.
C20_PresentValuesQuoted ==
    [][ExportToCSV /\ currentRawData.v # <<>> =>
          LET rows    == currentRawData.v
              columns == Keys(rows[1])
              lines   == CsvRecords(csvOut'.v)
          IN  /\ CsvShape(rows, csvOut'.v)
              /\ \A i \in 1..Len(rows) : \A j \in 1..Len(columns) :
                    LET value == Get(rows[i], columns[j])
                        field == CsvFields(lines[i + 1])[j]
                    IN  IF value \in {Null, Undef}
                        THEN field = <<>>
                        ELSE IsQuotedForm(field, StringOf(value))]_vars

\* the export of a row with a null: "a","b" / "x","7" / ,"x"
C20_Witness ==
    /\ currentRawData = Arr(<<RowPlain, RowNull>>)
    /\ csvOut =
          Str(<<Quote, "a", Quote, ",", Quote, "b", Quote, "\n",
                Quote, "x", Quote, ",", Quote, "7", Quote, "\n",
                ",", Quote, "x", Quote, "\n">>)

-----------------------------------------------------------------------------
(* More properties of the wizard's navigation and submit (Spec) *)

\* C23: prevStep takes the step down by exactly one whenever it is above 1,
\* whether or not the current step validates, and no step of the page takes
\* it up by more than one.
C23_BackByOneNoSkipAhead ==
    [][/\ PrevStep /\ currentStep > 1 => currentStep' = currentStep - 1
       /\ currentStep' <= currentStep + 1]_vars

\* the wizard is back at step 2 with nothing that step 2 or step 3 requires:
\* the record that let it pass step 2 was deleted before prevStep
C23_Witness ==
    /\ currentStep = 2 /\ ~wizardHidden
    /\ Len(profileData.education.v) = 0
    /\ Len(profileData.skills.v) = 0
    /\ ~ValidateStep(2, form, profileData)

\* C25: every draft a profile submit transmits holds at least one education
\* record and at least one skill record.
C25_SubmitHasEducationAndSkill ==
    [][Len(inflight') > Len(inflight) =>
          /\ inflight'[Len(inflight')].body = RequestBody(profileData')
          /\ Len(profileData'.education.v) > 0
          /\ Len(profileData'.skills.v) > 0]_vars

-----------------------------------------------------------------------------
(* Submits that follow a submit: the wizard of a user without a profile, with
   the education editor, edit-mode entry and up to MaxResubmit submits
   outstanding *)

\* the state once loadProfile() has found no profile and shown the wizard
SubmitInit ==
    /\ currentStep = 1
    /\ profileData = InitialDraft
    /\ isEditMode = FALSE
    /\ editing = [c \in Colls |-> -1]
    /\ modalHidden = [c \in Colls |-> TRUE]
    /\ form = FormBlank
    /\ wizardHidden = FALSE
    /\ resumeHidden = TRUE
    /\ storage \in [access_token : {Str(<<"t">>)},
                    user : {Null, JsonText(UserRecord(Bool(FALSE)))}]
    /\ location = "page"
    /\ loadPc = "done"
    /\ inflight = <<>>
    /\ timers = 0
    /\ lastSaved = Null
    /\ lastNotice = Notice("none", "")
    /\ loadedRaw = Undef
    /\ sanitizeLog = <<>>
    /\ ApiIdle /\ JobsIdle /\ DashIdle /\ NotifIdle /\ OAuthIdle

SubmitNext ==
    \/ EnterEditMode
    \/ \E p \in FormPresets : TypeForm(p)
    \/ \E f \in WizardFills("education") : SaveEntry("education", f)
    \/ \E i \in 0..(MaxLen - 1) : DeleteEntry("education", i, TRUE)
    \/ SaveProfileWithin(MaxResubmit)
    \/ \E i \in 1..MaxResubmit : SaveProfileOk(i)
    \/ \E i \in 1..MaxResubmit : SaveProfileFailed(i)
    \/ ResumeTimer

SpecSubmit == SubmitInit /\ [][SubmitNext]_vars

-----------------------------------------------------------------------------
(* Properties of submits that follow a submit (SpecSubmit) *)

\* the request saveProfile has just sent
NewRequest == inflight'[Len(inflight')]

\* C26: once one submit has succeeded no later submit is sent as POST to
\* /students/profile/complete: a submit issued after a success, also one
\* issued before the delayed switch to the resume view and with no user
\* record stored, is a PUT to /students/profile/update. The switch pending
\* (lastSaved is set) is what tells that a submit has succeeded.
C26_UpdateAfterSuccess ==
    [][lastSaved # Null /\ Len(inflight') > Len(inflight) =>
          /\ NewRequest.method = "PUT"
          /\ NewRequest.endpoint = "/api/v1/students/profile/update"]_vars

\* C28: the draft the resume view shows after a successful submit is the
\* draft that submit transmitted, whatever the user did while the request and
\* the delayed switch were pending.
C28_ResumeShowsTransmitted ==
    [][ResumeTimer /\ timers = 1 =>
          /\ ~resumeHidden'
          /\ RequestBody(profileData') = lastSaved.body]_vars

-----------------------------------------------------------------------------
(* The editing sentinels (SpecEditors) *)

\* C27: for each sub-collection the editing sentinel is -1 or an index of the
\* current sequence, so that a save in edit mode writes neither past the end
\* nor onto a record other than the one opened.
C27_SentinelInRange ==
    \A c \in Colls :
       \/ editing[c] = -1
       \/ /\ IsArray(profileData[c])
          /\ editing[c] \in 0..(Len(profileData[c].v) - 1)

-----------------------------------------------------------------------------
(* Overlapping queries of the dashboard (SpecDashboard) *)

\* a step in which an ok response was laid out: a query left those awaiting
\* a response, the page stayed and the results section is shown
OkResponseShown ==
    /\ Len(queriesPending') < Len(queriesPending)
    /\ location' = location
    /\ ~resultsHidden'

\* C24: no query is de-duplicated or aborted: a submission adds its query to
\* those awaiting a response even when the same query already waits, and a
\* step takes at most the one it answers away. Whichever unanswered query an
\* ok response answers, in whatever order they were submitted, the result
\* shown and the raw data kept for export are then those of that response.
C24_LastResponseShown ==
    [][/\ \A query \in Queries :
             HandleQuerySubmit(query) =>
                queriesPending' = Append(queriesPending, query)
       /\ Len(queriesPending') >= Len(queriesPending) - 1
       /\ OkResponseShown =>
             /\ \E i \in DOMAIN queriesPending :
                   /\ queriesPending' = Remove(queriesPending, i)
                   /\ queryIntent' = Str(queriesPending[i])
             /\ currentRawData' = IF tableRows' = Undef THEN Arr(<<>>)
                                  ELSE tableRows']_vars

\* the result of qb is shown, with its data kept for export, while qa is
\* still unanswered: the two queries were in flight together and qb's
\* response came first
C24_Witness ==
    /\ queriesPending = << <<"q", "a">> >>
    /\ queryIntent = Str(<<"q", "b">>)
    /\ ~resultsHidden
    /\ currentRawData = Arr(<<RowPlain>>)
    /\ tableRows = Arr(<<RowPlain>>)

-----------------------------------------------------------------------------
(* The jobs browser with its next button and a backend that reports the
   pages it has (SpecPaging) *)

\* the pages of jobs the backend has for the three filter values: none with
\* a source filter, one with a location filter, two otherwise
TotalPages(filters) ==
    IF filters.source # <<>> THEN 0
    ELSE IF filters.location # <<>> THEN 1
    ELSE 2

\* the filter values a request carries, as the inputs held them
FiltersOf(request) ==
    [jobType  |-> IF request.job_type = Undef THEN <<>> ELSE request.job_type.v,
     source   |-> IF request.source = Undef THEN <<>> ELSE request.source.v,
     location |-> IF request.location = Undef THEN <<>> ELSE request.location.v]

\* data.pagination of the backend's answer to a request
Reported(request) ==
    [page        |-> request.page,
     total_pages |-> TotalPages(FiltersOf(request)),
     has_prev    |-> request.page > 1,
     has_next    |-> request.page < TotalPages(FiltersOf(request))]

\* a click on #nextBtn: updatePagination left it enabled, nextPage() runs
ClickNext ==
    /\ pagination # Null /\ pagination.has_next
    /\ NextPage

PagingNext ==
    \/ \E k \in FilterKeys : \E value \in FilterValues[k] : SetFilter(k, value)
    \/ ClickNext
    \/ PreviousPage
    \/ \E i \in jobsPending : LoadJobsOk(i, Reported(jobsLog[i]))
    \/ \E i \in jobsPending : LoadJobsFailed(i)

SpecPaging == JobsInit /\ [][PagingNext]_vars

\* C29: with the next button enabled only when the response processed last
\* had has_next, the page counter never exceeds the number of pages the
\* backend has for the current filters, when it has at least one. Stated
\* where it is most favourable: while the filter inputs hold what every
\* request so far carried.
C29_PageWithinTotal ==
    (\A i \in DOMAIN jobsLog : FiltersOf(jobsLog[i]) = jobFilters)
       /\ TotalPages(jobFilters) >= 1
       => currentPage <= TotalPages(jobFilters)

-----------------------------------------------------------------------------
(* The notification bell (notifications.js): a click on a notification *)

MaxClicks == 2

\* notifications of the dropdown: with a target whose last path segment is
\* the job's id, without a target, and with a target that has no slash
JobUrl == <<"/", "j", "/", "7">>
BareUrl == <<"8">>

Notifs ==
    {[id |-> 1, action_url |-> Str(JobUrl)],
     [id |-> 2, action_url |-> Null],
     [id |-> 3, action_url |-> Str(BareUrl)]}

\* action_url.split('/').pop()
LastSegment(url) ==
    LET slashes == {i \in 1..Len(url) : url[i] = "/"}
    IN  IF slashes = {} THEN url
        ELSE SubSeq(url, (CHOOSE i \in slashes : \A j \in slashes : j <= i) + 1,
                    Len(url))

\* window.location.href once it is set to a target
Href(url) == IF url = JobUrl THEN "/j/7" ELSE "8"

\* how a fetch ends: a response that is ok, one that is not, or an exception
\* (rejected fetch)
Outcomes == {"ok", "failed", "threw"}

\* handleNotificationClick without its test of response.ok
NavigatesOnResponse(outcome) == outcome # "threw"

\* handleNotificationClick: if (response.ok)
Navigates(outcome) == outcome = "ok"

\* what the notification handlers never touch
notifFrame == <<currentStep, profileData, isEditMode, editorVars, form,
                viewVars, storage, loadVars, netVars, sanitizeLog, apiVars,
                jobsVars, dashVars, oauthVars>>

\* the mark-read requests sent so far
MarkRequests == {i \in DOMAIN notifLog : notifLog[i].req = "mark-read"}

\* handleNotificationClick(notif) up to the await in markAsRead([notif.id])
HandleNotificationClick(notif) ==
    /\ Alive /\ Cardinality(MarkRequests) < MaxClicks
    /\ notifLog' = Append(notifLog, [req |-> "mark-read", ids |-> <<notif.id>>])
    /\ clicks' = Append(clicks, [notif |-> notif, pc |-> "mark"])
    /\ UNCHANGED <<unreadCount, countPending, location, lastNotice, notifFrame>>

\* markAsRead resumed by the end of its fetch and, once it has returned,
\* handleNotificationClick up to the await of the job lookup
MarkAsReadSettle(k, outcome) ==
    /\ Alive /\ k \in DOMAIN clicks /\ clicks[k].pc = "mark"
    /\ LET url == clicks[k].notif.action_url
           counted == IF outcome = "ok"
                      THEN Append(notifLog, [req |-> "unread-count"])
                      ELSE notifLog
       IN  /\ countPending' = IF outcome = "ok" THEN countPending + 1
                              ELSE countPending
           /\ IF Truthy(url)
              THEN /\ notifLog' = Append(counted,
                                         [req |-> "job", id |-> LastSegment(url.v)])
                   /\ clicks' = [clicks EXCEPT ![k].pc = "lookup"]
              ELSE /\ notifLog' = counted
                   /\ clicks' = Remove(clicks, k)
    /\ UNCHANGED <<unreadCount, location, lastNotice, notifFrame>>

\* handleNotificationClick resumed by the end of the job lookup
LookupSettle(k, outcome) ==
    /\ Alive /\ k \in DOMAIN clicks /\ clicks[k].pc = "lookup"
    /\ clicks' = Remove(clicks, k)
    /\ IF Navigates(outcome)
       THEN /\ location' = Href(clicks[k].notif.action_url.v)
            /\ UNCHANGED lastNotice
       ELSE /\ lastNotice' =
                  IF outcome = "threw" THEN Notice("error", "Error loading job")
                  ELSE Notice("warning", "This job is no longer available")
            /\ UNCHANGED location
    /\ UNCHANGED <<notifLog, unreadCount, countPending, notifFrame>>

\* data of the unread-count endpoint; Undef for a rejected fetch
UnreadCounts ==
    {Undef, [success |-> FALSE, unread_count |-> 0],
     [success |-> TRUE, unread_count |-> 0],
     [success |-> TRUE, unread_count |-> 3]}

\* loadUnreadCount resumed by the end of its fetch
UnreadCountSettle(data) ==
    /\ Alive /\ countPending > 0
    /\ countPending' = countPending - 1
    /\ unreadCount' = IF data # Undef /\ data.success THEN data.unread_count
                      ELSE unreadCount
    /\ UNCHANGED <<clicks, notifLog, location, lastNotice, notifFrame>>

\* a page with the notification dropdown filled, a token stored
NotifInit ==
    /\ currentStep = 1
    /\ profileData = InitialDraft
    /\ isEditMode = FALSE
    /\ editing = [c \in Colls |-> -1]
    /\ modalHidden = [c \in Colls |-> TRUE]
    /\ form = FormBlank
    /\ wizardHidden = TRUE
    /\ resumeHidden = TRUE
    /\ storage = [access_token |-> Str(<<"t">>), user |-> Null]
    /\ location = "page"
    /\ loadPc = "start"
    /\ inflight = <<>>
    /\ timers = 0
    /\ lastSaved = Null
    /\ lastNotice = Notice("none", "")
    /\ loadedRaw = Undef
    /\ sanitizeLog = <<>>
    /\ ApiIdle /\ JobsIdle /\ DashIdle /\ NotifIdle /\ OAuthIdle

NotifNext ==
    \/ \E notif \in Notifs : HandleNotificationClick(notif)
    \/ \E k \in DOMAIN clicks : \E outcome \in Outcomes :
          MarkAsReadSettle(k, outcome)
    \/ \E k \in DOMAIN clicks : \E outcome \in Outcomes :
          LookupSettle(k, outcome)
    \/ \E data \in UnreadCounts : UnreadCountSettle(data)

SpecNotif == NotifInit /\ [][NotifNext]_vars

\* the request sent last
LastNotifRequest == notifLog[Len(notifLog)]

-----------------------------------------------------------------------------
(* Google login (utils.js, auth.js): loginWithGoogle on the login page and
   handleOAuthCallback on the callback page *)

RoleStudent == <<"s", "t", "u", "d", "e", "n", "t">>
RoleInstitution == <<"i", "n", "s", "t", "i", "t", "u", "t", "i", "o", "n">>

\* what the login page's buttons pass to loginWithGoogle
Roles == {RoleStudent, RoleInstitution}

\* what the oauth handlers never touch
oauthFrame == <<currentStep, profileData, isEditMode, editorVars, form,
                viewVars, loadVars, netVars, lastNotice, sanitizeLog, apiVars,
                jobsVars, dashVars, notifVars>>

\* loginWithGoogle(role) up to its await
LoginWithGoogle(role) ==
    /\ Alive /\ oauth.pc = "idle"
    /\ oauth' = [pc |-> "login", role |-> role]
    /\ UNCHANGED <<storage, location, loginRole, lastAlert, oauthFrame>>

\* data of the login endpoint; Undef for a rejected fetch or a body that is
\* not JSON
AuthUrls == {Undef, [auth_url |-> Undef], [auth_url |-> Str(<<"g">>)]}

\* loginWithGoogle resumed by the end of its fetch
LoginSettle(data) ==
    /\ Alive /\ oauth.pc = "login"
    /\ IF data = Undef
       THEN /\ lastAlert' = "Login failed. Please try again."
            /\ oauth' = [pc |-> "idle"]
            /\ UNCHANGED <<loginRole, location>>
       ELSE IF Truthy(data.auth_url)
       THEN /\ loginRole' = Str(oauth.role)
            /\ location' = "google"
            /\ oauth' = [pc |-> "redirected"]
            /\ UNCHANGED lastAlert
       ELSE /\ oauth' = [pc |-> "idle"]
            /\ UNCHANGED <<loginRole, location, lastAlert>>
    /\ UNCHANGED <<storage, oauthFrame>>

\* the code and state parameters of the callback URL; Null when absent
Codes == {Null, Str(<<"c">>)}
States == {Null, Str(RoleStudent), Str(RoleInstitution)}

\* const role = state || localStorage.getItem('login_role') || 'student'
CallbackRole(state, stored) ==
    IF Truthy(state) THEN state
    ELSE IF Truthy(stored) THEN stored
    ELSE Str(RoleStudent)

\* the browser arrives at the callback page, from Google or by its address,
\* and handleOAuthCallback() runs up to its await
HandleOAuthCallback(code, state) ==
    /\ location \in {"page", "google"}
    /\ oauth.pc \in {"idle", "redirected"}
    /\ IF ~Truthy(code)
       THEN /\ location' = "/"
            /\ oauth' = [pc |-> "finished", code |-> FALSE, failed |-> FALSE]
       ELSE /\ location' = "callback"
            /\ oauth' = [pc |-> "callback", code |-> code,
                         role |-> CallbackRole(state, loginRole)]
    /\ UNCHANGED <<storage, loginRole, lastAlert, oauthFrame>>

\* data.user of the callback endpoint
OAuthUser(role, done) ==
    Obj([email |-> Str(<<"e">>), role |-> Str(role), profile_completed |-> done])

\* data of the callback endpoint; Undef for a rejected fetch or a body that
\* is not JSON
CallbackResponses ==
    {Undef} \cup
    [access_token : {Undef, Str(<<"t">>)},
     user : {Undef, Null} \cup
            {OAuthUser(role, done) : role \in Roles, done \in {Bool(FALSE), Bool(TRUE)}}]

\* redirectToDashboard(role)
RedirectToDashboard(role) ==
    IF role = Str(RoleStudent) THEN "/student/dashboard"
    ELSE "/institution/dashboard"

\* redirectToProfileForm(role)
RedirectToProfileForm(role) ==
    IF role = Str(RoleStudent) THEN "/student/profile"
    ELSE "/institution/profile"

\* the catch of handleOAuthCallback
CallbackFailed ==
    /\ lastAlert' = "Authentication failed. Please try again."
    /\ location' = "/"
    /\ oauth' = [pc |-> "finished", code |-> TRUE, failed |-> TRUE]

\* handleOAuthCallback resumed by the end of its fetch
CallbackSettle(data) ==
    /\ location = "callback" /\ oauth.pc = "callback"
    /\ IF data # Undef /\ Truthy(data.access_token)
       THEN /\ storage' = SetUser(SetToken(storage, data.access_token), data.user)
            /\ loginRole' = Null
            /\ IF data.user \in {Undef, Null}
               THEN CallbackFailed
               ELSE /\ location' =
                          IF Truthy(data.user.v.profile_completed)
                          THEN RedirectToDashboard(data.user.v.role)
                          ELSE RedirectToProfileForm(data.user.v.role)
                    /\ oauth' = [pc |-> "finished", code |-> TRUE,
                                 failed |-> FALSE]
                    /\ UNCHANGED lastAlert
       ELSE /\ CallbackFailed
            /\ UNCHANGED <<storage, loginRole>>
    /\ UNCHANGED oauthFrame

\* from the home page the user opens the login page again
VisitLogin ==
    /\ location = "/" /\ oauth.pc = "finished"
    /\ location' = "page"
    /\ oauth' = [pc |-> "idle"]
    /\ UNCHANGED <<storage, loginRole, lastAlert, oauthFrame>>

\* the login page; the store holds what an earlier visit left
OAuthInit ==
    /\ currentStep = 1
    /\ profileData = InitialDraft
    /\ isEditMode = FALSE
    /\ editing = [c \in Colls |-> -1]
    /\ modalHidden = [c \in Colls |-> TRUE]
    /\ form = FormBlank
    /\ wizardHidden = TRUE
    /\ resumeHidden = TRUE
    /\ storage \in [access_token : {Null, Str(<<"o">>)},
                    user : {Null, JsonText(UserRecord(Bool(TRUE)))}]
    /\ location = "page"
    /\ loadPc = "start"
    /\ inflight = <<>>
    /\ timers = 0
    /\ lastSaved = Null
    /\ lastNotice = Notice("none", "")
    /\ loadedRaw = Undef
    /\ sanitizeLog = <<>>
    /\ ApiIdle /\ JobsIdle /\ DashIdle /\ NotifIdle
    /\ loginRole = Null
    /\ oauth = [pc |-> "idle"]
    /\ lastAlert = Undef

OAuthNext ==
    \/ \E role \in Roles : LoginWithGoogle(role)
    \/ \E data \in AuthUrls : LoginSettle(data)
    \/ \E code \in Codes : \E state \in States : HandleOAuthCallback(code, state)
    \/ \E data \in CallbackResponses : CallbackSettle(data)
    \/ VisitLogin

SpecOAuth == OAuthInit /\ [][OAuthNext]_vars

\* C22: login_role is written when loginWithGoogle starts the redirect, and
\* once handleOAuthCallback has finished handling a callback that carried a
\* code, whatever the outcome, login_role is no longer stored.
C22_LoginRoleTransient ==
    /\ [][location' = "google" /\ location # "google" =>
             loginRole' = Str(oauth.role)]_vars
    /\ [](oauth.pc = "finished" /\ oauth.code => loginRole = Null)

\* the pages handleOAuthCallback redirects to when it succeeds
LandingPages ==
    {"/student/dashboard", "/institution/dashboard",
     "/student/profile", "/institution/profile"}

\* C30: a callback handling that ends on its failure path (the
\* authentication-failed alert and the redirect to the home page) has stored
\* no access token; token and user are stored only by a handling that ends
\* with a redirect to a dashboard or a profile form.
C30_NothingStoredOnFailure ==
    [][\A data \in CallbackResponses :
          CallbackSettle(data) =>
             /\ oauth'.failed =>
                   /\ location' = "/"
                   /\ storage' = storage
             /\ storage' # storage => location' \in LandingPages]_vars

====
